---- MODULE Spec2Model ----
(***************************************************************************)
(* Verification model of the steel-design window (DesignWindow) and the    *)
(* section view (View3DWindow) of the beam design application.             *)
(*                                                                         *)
(* Number representation.                                                  *)
(*  - Lengths read from the form (b, h, r, bar diameters, depths, widths)  *)
(*    are integers in thousandths of a centimetre (Milli).                 *)
(*  - Bar areas and provided totals are integers in hundredths of cm2.     *)
(*  - The required-area chain (_calc_as_req, _calc_as_limits, np.clip)     *)
(*    runs on decimal floating point numbers <<"f", m, e>> = m * 10^e with *)
(*    a four digit mantissa, plus nan and the two infinities, so that the  *)
(*    products of the formula keep their magnitude and the numpy special   *)
(*    values keep their behaviour.                                         *)
(*  - A Python exception that leaves a handler is the outcome "raise".     *)
(***************************************************************************)
EXTENDS Integers, Sequences, FiniteSets, TLC

\* The({e : x \in {v}}) is e with the local x bound to the value of v
The(S) == CHOOSE x \in S : TRUE

(***************************************************************************)
(* Decimal floating point                                                  *)
(***************************************************************************)
Pow10(k) == 10 ^ k

Abs(n) == IF n < 0 THEN -n ELSE n

Sgn(n) == IF n < 0 THEN -1 ELSE IF n > 0 THEN 1 ELSE 0

Digits(n) ==
    IF n < 10 THEN 1 ELSE IF n < 100 THEN 2 ELSE IF n < 1000 THEN 3
    ELSE IF n < 10000 THEN 4 ELSE IF n < 100000 THEN 5
    ELSE IF n < 1000000 THEN 6 ELSE IF n < 10000000 THEN 7
    ELSE IF n < 100000000 THEN 8 ELSE IF n < 1000000000 THEN 9 ELSE 10

NaN == <<"nan", 0, 0>>

Inf(s) == <<"inf", s, 0>>

Zero == <<"f", 0, 0>>

IsNaN(x) == x[1] = "nan"

IsInf(x) == x[1] = "inf"

IsFin(x) == x[1] = "f"

\* sign of a value that is not nan
DSign(x) == Sgn(x[2])

\* m * 10^e rounded to a four digit mantissa (half away from zero)
Norm(m, e) ==
    IF m = 0 THEN Zero
    ELSE LET n == Abs(m)
             k == Digits(n) - 4
         IN  IF k > 0
             THEN LET q == (n \div Pow10(k)) +
                           (IF (n % Pow10(k)) * 2 >= Pow10(k) THEN 1 ELSE 0)
                  IN  IF q = 10000
                      THEN <<"f", Sgn(m) * 1000, e + k + 1>>
                      ELSE <<"f", Sgn(m) * q, e + k>>
             ELSE <<"f", Sgn(m) * n * Pow10(-k), e + k>>

\* the float of an integer count of 10^-s units
DF(n, s) == Norm(n, -s)

DNeg(x) == IF IsNaN(x) THEN NaN ELSE <<x[1], -x[2], x[3]>>

\* the moment taken with its sign: no abs() in line 58
DAbs_signed(x) == x

DAbs(x) == IF IsNaN(x) THEN NaN ELSE <<x[1], Abs(x[2]), x[3]>>

DAdd(x, y) ==
    IF IsNaN(x) \/ IsNaN(y) THEN NaN
    ELSE IF IsInf(x) /\ IsInf(y) THEN (IF x[2] = y[2] THEN x ELSE NaN)
    ELSE IF IsInf(x) THEN x
    ELSE IF IsInf(y) THEN y
    ELSE IF x[2] = 0 THEN y
    ELSE IF y[2] = 0 THEN x
    ELSE LET hi == IF x[3] >= y[3] THEN x ELSE y
             lo == IF x[3] >= y[3] THEN y ELSE x
             df == hi[3] - lo[3]
         IN  IF df > 5 THEN hi
             ELSE Norm(hi[2] * Pow10(df) + lo[2], lo[3])

DSub(x, y) == DAdd(x, DNeg(y))

DMul(x, y) ==
    IF IsNaN(x) \/ IsNaN(y) THEN NaN
    ELSE IF IsInf(x) \/ IsInf(y)
         THEN (IF x[2] = 0 \/ y[2] = 0 THEN NaN ELSE Inf(Sgn(x[2]) * Sgn(y[2])))
    ELSE Norm(x[2] * y[2], x[3] + y[3])

\* true division of two numpy floats: a zero divisor gives inf or nan
DDiv(x, y) ==
    IF IsNaN(x) \/ IsNaN(y) THEN NaN
    ELSE IF IsInf(x)
         THEN (IF IsInf(y) THEN NaN
               ELSE Inf(x[2] * (IF y[2] < 0 THEN -1 ELSE 1)))
    ELSE IF IsInf(y) THEN Zero
    ELSE IF y[2] = 0
         THEN (IF x[2] = 0 THEN NaN ELSE Inf(Sgn(x[2])))
    ELSE LET q == (Abs(x[2]) * 100000) \div Abs(y[2])
         IN  Norm(Sgn(x[2]) * Sgn(y[2]) * q, x[3] - y[3] - 5)

\* comparisons of IEEE values: every comparison with nan is false
DLt(x, y) ==
    IF IsNaN(x) \/ IsNaN(y) THEN FALSE
    ELSE IF IsInf(x) /\ IsInf(y) THEN x[2] < y[2]
    ELSE DSign(DSub(x, y)) < 0

DLe(x, y) ==
    IF IsNaN(x) \/ IsNaN(y) THEN FALSE
    ELSE IF IsInf(x) /\ IsInf(y) THEN x[2] <= y[2]
    ELSE DSign(DSub(x, y)) <= 0

DGt(x, y) == DLt(y, x)

DGe(x, y) == DLe(y, x)

RECURSIVE ISqrtBS(_, _, _)
\* greatest s in lo..hi with s*s <= n  (hi <= 46340)
ISqrtBS(n, lo, hi) ==
    IF lo >= hi THEN lo
    ELSE LET mid == (lo + hi + 1) \div 2
         IN  IF mid * mid <= n THEN ISqrtBS(n, mid, hi)
             ELSE ISqrtBS(n, lo, mid - 1)

\* np.sqrt: nan (with a warning, no exception) below zero
DSqrt(x) ==
    IF IsNaN(x) THEN NaN
    ELSE IF IsInf(x) THEN (IF x[2] > 0 THEN x ELSE NaN)
    ELSE IF x[2] < 0 THEN NaN
    ELSE IF x[2] = 0 THEN Zero
    ELSE IF x[3] % 2 = 0
         THEN Norm(ISqrtBS(x[2] * 10000, 0, 31623), (x[3] - 4) \div 2)
         ELSE Norm(ISqrtBS(x[2] * 100000, 0, 31623), (x[3] - 5) \div 2)

(***************************************************************************)
(* Bar catalog (models/constants.py) and text conversions                  *)
(***************************************************************************)
\* bar diameters in thousandths of a centimetre
DIAM_CM ==
    [k \in {"8mm", "3/8\"", "1/2\"", "5/8\"", "3/4\"", "1\""} |->
        CASE k = "8mm" -> 800 [] k = "3/8\"" -> 950 [] k = "1/2\"" -> 1270
          [] k = "5/8\"" -> 1590 [] k = "3/4\"" -> 1910 [] k = "1\"" -> 2540]

\* bar areas in hundredths of a square centimetre
BAR_DATA ==
    [k \in {"3/8\"", "1/2\"", "5/8\"", "3/4\"", "1\""} |->
        CASE k = "3/8\"" -> 71 [] k = "1/2\"" -> 129 [] k = "5/8\"" -> 199
          [] k = "3/4\"" -> 284 [] k = "1\"" -> 510]

\* a lookup that falls back on the entry of the combo boxes' default bar
DictGet_default_bar(dict, key) ==
    IF key \in DOMAIN dict THEN dict[key] ELSE dict["1/2\""]

\* dict.get(key, 0)
DictGet(dict, key) == IF key \in DOMAIN dict THEN dict[key] ELSE 0

\* float(text) in thousandths for the texts the model types into the form;
\* every other text makes float() raise ValueError
FloatText ==
    [t \in {"0", "4", "20", "30", "50", "210", "350", "4200", "0.9",
            "-30", "-210", "-4200", "-6000", "280", "420", "0.75",
            "700"} |->
        CASE t = "0" -> 0 [] t = "4" -> 4000 [] t = "20" -> 20000
          [] t = "280" -> 280000 [] t = "420" -> 420000 [] t = "0.75" -> 750
          [] t = "700" -> 700000
          [] t = "30" -> 30000 [] t = "50" -> 50000 [] t = "210" -> 210000
          [] t = "350" -> 350000 [] t = "4200" -> 4200000 [] t = "0.9" -> 900
          [] t = "-30" -> -30000 [] t = "-210" -> -210000
          [] t = "-4200" -> -4200000 [] t = "-6000" -> -6000000]

IsFloatText(t) == t \in DOMAIN FloatText

\* int(text) for the items of the quantity and layer combo boxes
IntText ==
    [t \in {"1", "2", "3", "4", "5", "6", "7", "8", "9", "10"} |->
        CASE t = "1" -> 1 [] t = "2" -> 2 [] t = "3" -> 3 [] t = "4" -> 4
          [] t = "5" -> 5 [] t = "6" -> 6 [] t = "7" -> 7 [] t = "8" -> 8
          [] t = "9" -> 9 [] t = "10" -> 10]

\* an empty quantity taken for one bar
QtyOf_empty_one(row) ==
    IF row.qty = "" THEN 1
    ELSE IF row.qty \in DOMAIN IntText THEN IntText[row.qty] ELSE 0

\* n = int(qty) if qty else 0, and 0 on ValueError
QtyOf(row) ==
    IF row.qty = "" THEN 0
    ELSE IF row.qty \in DOMAIN IntText THEN IntText[row.qty] ELSE 0

\* layer = int(capa) if capa else 1
LayerOf(row) == IF row.capa = "" THEN 1 ELSE IntText[row.capa]

\* f"{x:.2f}" and f"{x:.1f}" of a length in thousandths (round half to even).
\* A tie is rounded on the decimal value; the program rounds the binary
\* double nearest to it, which can fall on the other side of the tie.
RoundDiv(n, q) ==
    LET a == Abs(n)
        t == a \div q
        r == a % q
        u == IF 2 * r > q \/ (2 * r = q /\ t % 2 = 1) THEN t + 1 ELSE t
    IN  Sgn(n) * u

Fmt2Milli(x) == <<"%.2f", RoundDiv(x, 10)>>

Fmt1Milli(x) == <<"%.1f", RoundDiv(x, 100)>>

\* f"{a:.2f}" of an area in hundredths
Fmt2Centi(a) == <<"%.2f", a>>

\* f"{x:.2f}" of a float of the required-area chain
Fmt2(x) ==
    IF IsNaN(x) THEN <<"nan", 0>>
    ELSE IF IsInf(x) THEN <<"inf", x[2]>>
    ELSE IF x[3] + 2 >= 0 THEN <<"%.2f", x[2] * Pow10(x[3] + 2)>>
    ELSE IF -(x[3] + 2) > 9 THEN <<"%.2f", 0>>
    ELSE <<"%.2f", RoundDiv(x[2], Pow10(-(x[3] + 2)))>>

Sections == 1..6

Max2(a, b) == IF a >= b THEN a ELSE b

RECURSIVE Flatten(_, _)
\* the rows of sections i..6 in the order the nested for loops visit them
Flatten(rows, i) == IF i > 6 THEN <<>> ELSE rows[i] \o Flatten(rows, i + 1)

(***************************************************************************)
(* DesignWindow.calc_effective_depth                                       *)
(***************************************************************************)
RECURSIVE ScanLayers_last(_, _, _)
\* a scan that gives a layer the diameter of its last row with bars
ScanLayers_last(seq, i, acc) ==
    IF i > Len(seq) THEN acc
    ELSE LET row == seq[i]
             area == QtyOf(row) * DictGet(BAR_DATA, row.dia)
             layer == LayerOf(row)
         IN  IF area > 0
             THEN ScanLayers_last(seq, i + 1,
                    [areas |-> [acc.areas EXCEPT ![layer] =
                                    IF area > @ THEN area ELSE @],
                     diams |-> [acc.diams EXCEPT ![layer] =
                                    DictGet(DIAM_CM, row.dia)]])
             ELSE ScanLayers_last(seq, i + 1, acc)

RECURSIVE ScanLayers(_, _, _)
\* the loop of lines 130-143: acc = [areas, diams] after rows i..Len(seq)
ScanLayers(seq, i, acc) ==
    IF i > Len(seq) THEN acc
    ELSE LET row == seq[i]
             area == QtyOf(row) * DictGet(BAR_DATA, row.dia)
             layer == LayerOf(row)
         IN  IF area > acc.areas[layer]
             THEN ScanLayers(seq, i + 1,
                    [areas |-> [acc.areas EXCEPT ![layer] = area],
                     diams |-> [acc.diams EXCEPT ![layer] =
                                    DictGet(DIAM_CM, row.dia)]])
             ELSE ScanLayers(seq, i + 1, acc)

\* the number of layers with bars in place of the greatest such layer
MaxLayerOf_count(areas) ==
    Max2(1, Cardinality({l \in 1..4 : areas[l] > 0}))

\* greatest layer of 1..4 with layer_areas > 0, 1 when none (lines 145-148)
MaxLayerOf(areas) ==
    IF areas[4] > 0 THEN 4 ELSE IF areas[3] > 0 THEN 3
    ELSE IF areas[2] > 0 THEN 2 ELSE 1

\* layer 4 placed below layer 3 by the bar spacing and the two half
\* diameters, as the layers above it are
LayerDepths_spaced4(h, r, de, db) ==
    <<h - r - de - db[1] \div 2,
      h - r - de - db[1] - 2500 - db[2] \div 2,
      h - r - de - db[1] - 2500 - db[2] - 2500 - db[3] \div 2,
      h - r - de - db[1] - 2500 - db[2] - 2500 - db[3] - 2500 - db[4] \div 2>>

\* the whole diameter of the first layer taken off d1 instead of half of it
LayerDepths_full_db1(h, r, de, db) ==
    <<h - r - de - db[1],
      h - r - de - db[1] - 2500 - db[2] \div 2,
      h - r - de - db[1] - 2500 - db[2] - 2500 - db[3] \div 2,
      (h - r - de - db[1] - 2500 - db[2] - 2500 - db[3] \div 2) - 3000>>

\* d1, d2, d3, d4 of lines 152, 157, 164 and 172, db the dict layer_diams
LayerDepths(h, r, de, db) ==
    <<h - r - de - db[1] \div 2,
      h - r - de - db[1] - 2500 - db[2] \div 2,
      h - r - de - db[1] - 2500 - db[2] - 2500 - db[3] \div 2,
      (h - r - de - db[1] - 2500 - db[2] - 2500 - db[3] \div 2) - 3000>>

\* result [ok, d, max_layer, depths, areas, diams]: ok is FALSE when float() raised
\* ValueError and the method returned 0.0 before touching layer_combo or the
\* d field; depths are d1..d4 as the formulas of lines 152-172 give them,
\* areas the dict layer_areas, diams the dict layer_diams
calc_effective_depth(E, est, var, rows) ==
    IF ~IsFloatText(E.h) \/ ~IsFloatText(E.r)
    THEN [ok |-> FALSE, d |-> 0, max_layer |-> 1,
          depths |-> <<0, 0, 0, 0>>, areas |-> <<0, 0, 0, 0>>,
          diams |-> <<0, 0, 0, 0>>]
    ELSE
    The({
    LET h == FloatText[E.h]
        r == FloatText[E.r]
        de == DictGet(DIAM_CM, est)
        A == sc.areas
        max_layer == MaxLayerOf(A)
        dp == LayerDepths(h, r, de, sc.diams)
        d1 == dp[1]
        d2 == dp[2]
        d3 == dp[3]
        d4 == dp[4]
        s2 == A[1] + A[2]
        s3 == A[1] + A[2] + A[3]
        s4 == A[1] + A[2] + A[3] + A[4]
        d == IF max_layer = 1 THEN d1
             ELSE IF max_layer = 2
                  THEN (IF s2 # 0 THEN (d1 * A[1] + d2 * A[2]) \div s2 ELSE d1)
             ELSE IF max_layer = 3
                  THEN (IF s3 # 0
                        THEN (d1 * A[1] + d2 * A[2] + d3 * A[3]) \div s3
                        ELSE d1)
             ELSE (IF s4 # 0
                   THEN (d1 * A[1] + d2 * A[2] + d3 * A[3] + d4 * A[4]) \div s4
                   ELSE d1)
    IN  [ok |-> TRUE, d |-> d, max_layer |-> max_layer,
         depths |-> <<d1, d2, d3, d4>>, areas |-> A, diams |-> sc.diams]
    : sc \in {ScanLayers(Flatten(rows, 1), 1,
                [areas |-> [l \in 1..4 |-> 0],
                 diams |-> [l \in 1..4 |-> DictGet(DIAM_CM, var)]])} })

(***************************************************************************)
(* Required-area chain                                                     *)
(***************************************************************************)
\* _calc_as_limits with beta1 held at the floor 0.65 of the concrete codes
_calc_as_limits_floor(fc, fy, b, d) ==
    The({
        [raised |-> fy[2] = 0 \/ den[2] = 0,
         as_min |-> DMul(DMul(DMul(DF(7, 1), DDiv(DSqrt(fc), fy)), b), d),
         as_max |->
            DMul(DMul(DMul(DF(75, 2),
                           DMul(DDiv(DMul(DMul(DF(85, 2), fc), beta1), fy),
                                DDiv(DF(6000, 0), den))),
                      b), d),
         beta1 |-> beta1]
      : beta1 \in {IF DLe(fc, DF(280, 0)) THEN DF(85, 2)
                   ELSE The({IF DLt(v, DF(65, 2)) THEN DF(65, 2) ELSE v
                             : v \in {DSub(DF(85, 2),
                                        DMul(DDiv(DSub(fc, DF(280, 0)),
                                                  DF(70, 0)),
                                             DF(5, 2)))} })},
        den \in {DAdd(DF(6000, 0), fy)} })

\* _calc_as_limits: the quotients of pmax are Python float divisions, which
\* raise ZeroDivisionError on a zero divisor; np.sqrt(fc) / fy is a numpy one
_calc_as_limits(fc, fy, b, d) ==
    The({
        [raised |-> fy[2] = 0 \/ den[2] = 0,
         as_min |-> DMul(DMul(DMul(DF(7, 1), DDiv(DSqrt(fc), fy)), b), d),
         as_max |->
            DMul(DMul(DMul(DF(75, 2),
                           DMul(DDiv(DMul(DMul(DF(85, 2), fc), beta1), fy),
                                DDiv(DF(6000, 0), den))),
                      b), d),
         beta1 |-> beta1]
      : beta1 \in {IF DLe(fc, DF(280, 0)) THEN DF(85, 2)
                   ELSE DSub(DF(85, 2),
                             DMul(DDiv(DSub(fc, DF(280, 0)), DF(70, 0)),
                                  DF(5, 2)))},
        den \in {DAdd(DF(6000, 0), fy)} })

\* the radicand passed on without the guard of line 63
PyMax0_unguarded(root) == root

\* Python max(root, 0): the first argument unless the second is greater
PyMax0(root) == IF DGt(Zero, root) THEN Zero ELSE root

\* _calc_as_req: Mu in thousandths of a tonne-metre; np says whether the
\* moment is a numpy scalar (division by zero gives inf/nan) or a Python
\* float (division by zero raises)
_calc_as_req(Mu, fc, b, d, fy, phi, np) ==
    The({ The({
        [raised |-> den1[2] = 0 \/ fy2[2] = 0 \/ (den2[2] = 0 /\ ~np),
         root |-> root, term |-> term,
         val |-> DSub(term, DMul(DF(5, 1), DSqrt(PyMax0(root))))]
      : root \in {DSub(DDiv(DMul(DF(289, 2), DMul(fcbd, fcbd)), fy2),
                       DDiv(DMul(DMul(DMul(DF(68, 1), fc), b), Mu_kgcm),
                            den2))},
        term \in {DDiv(DMul(DMul(DMul(DF(17, 1), fc), b), d), den1)} })
      : Mu_kgcm \in {DMul(DAbs(DF(Mu, 3)), DF(100000, 0))},
        den1 \in {DMul(DF(2, 0), fy)},
        fy2 \in {DMul(fy, fy)},
        fcbd \in {DMul(DMul(fc, b), d)},
        den2 \in {DMul(phi, DMul(fy, fy))} })

\* a clip that forgets the upper limit: maximum(a, lo)
DClip_lower_only(a, lo, hi) ==
    IF IsNaN(a) \/ IsNaN(lo) \/ IsNaN(hi) THEN NaN
    ELSE IF DLt(a, lo) THEN lo ELSE a

\* np.clip(a, lo, hi) = minimum(maximum(a, lo), hi); nan propagates
DClip(a, lo, hi) ==
    IF IsNaN(a) \/ IsNaN(lo) \/ IsNaN(hi) THEN NaN
    ELSE The({IF DGt(m, hi) THEN hi ELSE m
              : m \in {IF DLt(a, lo) THEN lo ELSE a}})

\* _required_areas.  calc holds the six calls of _calc_as_req (their radicand
\* before the guard, term and value), raw_n / raw_p are the lists as_n_raw /
\* as_p_raw, as_n / as_p the clipped arrays, beta1 the coefficient of the
\* _calc_as_limits call.  out is "zeros" (ValueError caught, np.zeros returned),
\* "raise_limits" / "raise_req" (ZeroDivisionError leaves the method before /
\* after as_min and as_max are stored) or "ok".
_required_areas(E, est, var, rows, mn, mp, np) ==
    IF ~IsFloatText(E.b) \/ ~IsFloatText(E.fc) \/ ~IsFloatText(E.fy)
         \/ ~IsFloatText(E.phi)
    THEN [out |-> "zeros", called_d |-> FALSE,
          eff |-> [ok |-> FALSE, d |-> 0, max_layer |-> 1,
                   depths |-> <<0, 0, 0, 0>>, areas |-> <<0, 0, 0, 0>>,
                   diams |-> <<0, 0, 0, 0>>],
          as_min |-> Zero, as_max |-> Zero, beta1 |-> Zero,
          calc |-> <<>>,
          raw_n |-> <<Zero, Zero, Zero>>, raw_p |-> <<Zero, Zero, Zero>>,
          as_n |-> <<Zero, Zero, Zero>>, as_p |-> <<Zero, Zero, Zero>>]
    ELSE
    The({ The({ The({
        [out |-> IF lim.raised THEN "raise_limits"
                 ELSE IF \E i \in 1..6 : raw[i].raised THEN "raise_req"
                 ELSE "ok",
         called_d |-> TRUE, eff |-> eff,
         as_min |-> lim.as_min, as_max |-> lim.as_max, beta1 |-> lim.beta1,
         calc |-> raw,
         raw_n |-> [i \in 1..3 |-> raw[i].val],
         raw_p |-> [i \in 1..3 |-> raw[i + 3].val],
         as_n |-> [i \in 1..3 |->
                      DClip(raw[i].val, lim.as_min, lim.as_max)],
         as_p |-> [i \in 1..3 |->
                      DClip(raw[i + 3].val, lim.as_min, lim.as_max)]]
      : lim \in {_calc_as_limits(fc, fy, b, d)},
        raw \in {[i \in 1..6 |->
                    _calc_as_req((mn \o mp)[i], fc, b, d, fy, phi, np)]} })
      : d \in {DF(eff.d, 3)} })
      : b \in {DF(FloatText[E.b], 3)},
        fc \in {DF(FloatText[E.fc], 3)},
        fy \in {DF(FloatText[E.fy], 3)},
        phi \in {DF(FloatText[E.phi], 3)},
        eff \in {calc_effective_depth(E, est, var, rows)} })

(***************************************************************************)
(* Handlers of DesignWindow as functions on the window's derived state D   *)
(* (the d field, layer_combo, as_min/as_max and their labels, the texts of *)
(* the two distribution plots, as_total, the base labels).  Each returns   *)
(* [D, raised]: the derived state it leaves and whether an exception left  *)
(* the handler.                                                            *)
(***************************************************************************)
StrOfLayer(k) == <<"1", "2", "3", "4">>[k]

\* lines 149 and 180: the writes of a calc_effective_depth call that returned
EffDepthWrites(D, eff) ==
    IF eff.ok
    THEN [D EXCEPT !.layer_combo = StrOfLayer(eff.max_layer),
                   !.d_text = Fmt2Milli(eff.d)]
    ELSE D

\* lines 77-79: the writes of _required_areas
ReqAreasWrites(D, R) ==
    The({IF R.out \in {"ok", "raise_req"}
         THEN [D1 EXCEPT !.as_min = R.as_min, !.as_max = R.as_max,
                         !.as_min_label = Fmt2(R.as_min),
                         !.as_max_label = Fmt2(R.as_max)]
         ELSE D1
      : D1 \in {IF R.called_d THEN EffDepthWrites(D, R.eff) ELSE D} })

Raised(R) == R.out \in {"raise_limits", "raise_req"}

draw_section(D, E, est, var, rows) ==
    IF ~IsFloatText(E.b) \/ ~IsFloatText(E.h) \/ ~IsFloatText(E.r)
    THEN [D |-> D, raised |-> FALSE]
    ELSE [D |-> EffDepthWrites(D, calc_effective_depth(E, est, var, rows)),
          raised |-> FALSE]

draw_required_distribution(D, E, est, var, rows, mn, mp, np) ==
    The({IF Raised(R) THEN [D |-> ReqAreasWrites(D, R), raised |-> TRUE]
         ELSE [D |-> [ReqAreasWrites(D, R) EXCEPT !.req_shown =
                         [i \in 1..6 |-> IF i <= 3 THEN Fmt2(R.as_n[i])
                                         ELSE Fmt2(R.as_p[i - 3])]],
               raised |-> FALSE]
      : R \in {_required_areas(E, est, var, rows, mn, mp, np)} })

SetMax(S) == CHOOSE x \in S : \A y \in S : y <= x

RECURSIVE SumSeq(_, _)
SumSeq(q, i) == IF i > Len(q) THEN 0 ELSE q[i] + SumSeq(q, i + 1)

(***************************************************************************)
(* The sums of the base width in binary64.  A float near c thousandths of  *)
(* a cm is c together with its deviation e: its value is                   *)
(* c / 1000 + e / (125 * 2^53).  A product n * dia or a sum is the exact   *)
(* result rounded to the nearest float, ties to even.                      *)
(***************************************************************************)
\* the deviations of the floats 0.8, 0.95, 1.27, 1.59, 1.91 and 2.54
DIAM_DEV ==
    [k \in DOMAIN DIAM_CM |->
        CASE k = "8mm" -> 50 [] k = "3/8\"" -> -50 [] k = "1/2\"" -> 20
          [] k = "5/8\"" -> 90 [] k = "3/4\"" -> -90 [] k = "1\"" -> 40]

RECURSIVE Pow2Mod125(_)
Pow2Mod125(n) == IF n = 0 THEN 1 ELSE (2 * Pow2Mod125(n - 1)) % 125

\* 2^n mod 125 for the exponents RoundDev asks for
Pow2Table == [n \in 0..50 |-> Pow2Mod125(n)]

RECURSIVE UlpExp(_, _, _)
\* the least k >= k0 with value < 2^k: floats of [2^(k-1), 2^k) are
\* 2^k / 2^53 apart
UlpExp(c, e, k0) ==
    IF c < 1000 * 2 ^ k0 \/ (c = 1000 * 2 ^ k0 /\ e < 0) THEN k0
    ELSE UlpExp(c, e, k0 + 1)

\* the deviation of the float nearest to c / 1000 + e / (125 * 2^53)
RoundDev(c, e) ==
    IF c = 0 THEN e
    ELSE The({ The({
        IF 2 * R < m THEN e - R
        ELSE IF 2 * R > m THEN e + (m - R)
        ELSE IF (2 * 2 ^ k * (((c % 125) * Pow2Table[49 - k]) % 125) + e)
                  % (2 * m) = R
             THEN e - R
        ELSE e + (m - R)
      : R \in {(2 ^ k * (((c % 125) * Pow2Table[50 - k]) % 125) + e) % m} })
      : k \in {UlpExp(c, e, 0)}, m \in {125 * 2 ^ UlpExp(c, e, 0)} })

\* f"{x:.1f}" of the float <<c, e>>: the decimal nearest to its exact value
Fmt1Dbl(x) ==
    <<"%.1f",
      IF x[1] % 100 > 50 \/ (x[1] % 100 = 50 /\ x[2] > 0)
           \/ (x[1] % 100 = 50 /\ x[2] = 0 /\ (x[1] \div 100) % 2 = 1)
      THEN x[1] \div 100 + 1 ELSE x[1] \div 100>>

\* max() of a set of floats <<c, e>>
MaxDbl(S) ==
    CHOOSE x \in S :
        \A y \in S : y[1] < x[1] \/ (y[1] = x[1] /\ y[2] <= x[2])

\* the keys of the dict "layers" of update_design_as
BaseLayers == {1, 2}

RECURSIVE ScanSection(_, _, _)
\* the loop of lines 555-569 over one section: acc = [total, n, sum_d, dev],
\* dev[layer] the deviation of the float sum_d of the layer
ScanSection(seq, i, acc) ==
    IF i > Len(seq) THEN acc
    ELSE LET row == seq[i]
             n == QtyOf(row)
             dia == DictGet(DIAM_CM, row.dia)
             area == DictGet(BAR_DATA, row.dia)
             layer == LayerOf(row)
             acc1 == [acc EXCEPT !.total = @ + n * area]
         IN  IF layer \in BaseLayers
             THEN ScanSection(seq, i + 1,
                    [acc1 EXCEPT !.n[layer] = @ + n,
                                 !.sum_d[layer] = @ + n * dia,
                                 !.dev[layer] =
                                     RoundDev(acc.sum_d[layer] + n * dia,
                                              @ + RoundDev(n * dia,
                                                     n * DictGet(DIAM_DEV,
                                                                 row.dia)))])
             ELSE ScanSection(seq, i + 1, acc1)

SectionScan(seq) ==
    ScanSection(seq, 1, [total |-> 0, n |-> [l \in BaseLayers |-> 0],
                         sum_d |-> [l \in BaseLayers |-> 0],
                         dev |-> [l \in BaseLayers |-> 0]])

\* a clear distance of 2.5 counted for every bar of the layer
LayerBase_gap_per_bar(sc, l, r, de) ==
    2 * r + 2 * de + sc.n[l] * 2500 + sc.sum_d[l]

\* lines 579-581: b_l of the layer l of the dict
LayerBase(sc, l, r, de) ==
    2 * r + 2 * de + Max2(sc.n[l] - 1, 0) * 2500 + sc.sum_d[l]

\* the deviation of the float b_l of line 581, the sum taken from the left:
\* ((2 * r + 2 * de) + spacing) + sum_d.  The cover texts of the model and
\* the multiples of 2.5 are floats without deviation.
LayerBaseDev(sc, l, r, est) ==
    RoundDev(LayerBase(sc, l, r, DictGet(DIAM_CM, est)),
             RoundDev(2 * r + 2 * DictGet(DIAM_CM, est)
                        + Max2(sc.n[l] - 1, 0) * 2500,
                      RoundDev(2 * r + 2 * DictGet(DIAM_CM, est),
                               2 * DictGet(DIAM_DEV, est)))
             + sc.dev[l])

\* lines 578-584: max over the layers of the dict of the layer's width
SectionBase(sc, r, de) ==
    SetMax({LayerBase(sc, l, r, de) : l \in BaseLayers})

\* max(b_layers) as the float it is
SectionBaseDbl(sc, r, est) ==
    MaxDbl({<<LayerBase(sc, l, r, DictGet(DIAM_CM, est)),
              LayerBaseDev(sc, l, r, est)>> : l \in BaseLayers})

\* the comparison of line 600 turned round
StatusOf_reversed(t, req) == IF DGe(req, DF(t, 2)) THEN "OK" ELSE "NO OK"

\* line 600
StatusOf(t, req) == IF DGe(DF(t, 2), req) THEN "OK" ELSE "NO OK"

\* lines 571-592: as_total and, when r is numeric, the two base labels
BaseWrites(D, E, est, scans) ==
    The({IF ~IsFloatText(E.r) THEN D2
         ELSE The({[D2 EXCEPT
                      !.base_req_label = Fmt1Dbl(max_base),
                      !.base_msg_label =
                          IF ~IsFloatText(E.b) THEN ""
                          ELSE IF max_base[1] < FloatText[E.b]
                                  \/ (max_base[1] = FloatText[E.b]
                                      /\ max_base[2] <= 0)
                          THEN "OK"
                          ELSE "Aumentar base o capa"]
                : max_base \in {MaxDbl({SectionBaseDbl(scans[i],
                                                       FloatText[E.r], est) :
                                        i \in Sections})} })
      : D2 \in {[D EXCEPT !.as_total =
                    SumSeq([i \in Sections |-> scans[i].total], 1)]} })

update_design_as(D, E, est, var, rows, mn, mp, np) ==
    The({IF Raised(R) THEN [D |-> ReqAreasWrites(D, R), raised |-> TRUE]
         ELSE [D |-> [BaseWrites(ReqAreasWrites(D, R), E, est, scans)
                        EXCEPT !.des_shown =
                          [i \in 1..6 |->
                             <<Fmt2Centi(scans[i].total),
                               StatusOf(scans[i].total,
                                        IF i <= 3 THEN R.as_n[i]
                                        ELSE R.as_p[i - 3])>>]],
               raised |-> FALSE]
      : R \in {_required_areas(E, est, var, rows, mn, mp, np)},
        scans \in {[i \in Sections |-> SectionScan(rows[i])]} })

_redraw(D, E, est, var, rows, mn, mp, np) ==
    The({IF s2.raised THEN s2
         ELSE update_design_as(s2.D, E, est, var, rows, mn, mp, np)
      : s2 \in {draw_required_distribution(
                    draw_section(D, E, est, var, rows).D,
                    E, est, var, rows, mn, mp, np)} })

(***************************************************************************)
(* DesignWindow._build_memoria: the data of the report                     *)
(***************************************************************************)
RECURSIVE DesignTotal(_, _)
\* the inner loop of _design_areas over the rows i..Len(seq) of one section
DesignTotal(seq, i) ==
    IF i > Len(seq) THEN 0
    ELSE QtyOf(seq[i]) * DictGet(BAR_DATA, seq[i].dia)
         + DesignTotal(seq, i + 1)

_design_areas(rows) == [i \in Sections |-> DesignTotal(rows[i], 1)]

\* line 813
EstadoOf(des, a) ==
    IF DGe(DF(des, 2), a) THEN "Cumple" ELSE "No cumple"

\* _build_memoria up to verif_table.  out is "none" (ValueError caught, the
\* warning shown, (None, None) returned), "raise" (ZeroDivisionError leaves
\* the method) or "ok"; d is the depth of line 703, verif_table the rows
\* [required area text, provided area text, estado] of the six labels.
_build_memoria(E, est, var, rows, mn, mp, np) ==
    IF \E f \in DOMAIN E : ~IsFloatText(E[f])
    THEN [out |-> "none", d |-> 0, beta1 |-> Zero, as_min |-> Zero,
          as_max |-> Zero,
          as_req |-> [i \in Sections |-> Zero],
          verif_table |-> [i \in Sections |-> <<>>]]
    ELSE
    The({ The({ The({
        [out |-> IF lim.raised \/ \E i \in Sections : raw[i].raised
                 THEN "raise" ELSE "ok",
         d |-> dm, beta1 |-> beta1,
         as_min |-> lim.as_min, as_max |-> lim.as_max,
         as_req |-> a,
         verif_table |->
            [i \in Sections |->
                <<Fmt2(a[i]), Fmt2Centi(des[i]), EstadoOf(des[i], a[i])>>]]
      : a \in {[i \in Sections |->
                    DClip(raw[i].val, lim.as_min, lim.as_max)]},
        des \in {_design_areas(rows)} })
      : lim \in {_calc_as_limits(fc, fy, b, d)},
        raw \in {[i \in Sections |->
                    _calc_as_req((mn \o mp)[i], fc, b, d, fy, phi, np)]},
        beta1 \in {IF DLe(fc, DF(280, 0)) THEN DF(85, 2)
                   ELSE DSub(DF(85, 2),
                             DMul(DDiv(DSub(fc, DF(280, 0)), DF(70, 0)),
                                  DF(5, 2)))} })
      : b \in {DF(FloatText[E.b], 3)},
        fc \in {DF(FloatText[E.fc], 3)},
        fy \in {DF(FloatText[E.fy], 3)},
        phi \in {DF(FloatText[E.phi], 3)},
        dm \in {FloatText[E.h] - FloatText[E.r] - DictGet(DIAM_CM, est)
                   - DictGet(DIAM_CM, var) \div 2},
        d \in {DF(FloatText[E.h] - FloatText[E.r] - DictGet(DIAM_CM, est)
                    - DictGet(DIAM_CM, var) \div 2, 3)} })

(***************************************************************************)
(* State                                                                   *)
(***************************************************************************)
VARIABLES
    edits,        \* texts of the fields b, h, r, f'c, fy, phi
    cb_estribo,   \* stirrup diameter combo
    cb_varilla,   \* longitudinal bar diameter combo
    rebar_rows,   \* per section, the rows [qty, dia, capa] of combo texts
    mn_corr,      \* the three negative moments (thousandths of a tonne-metre)
    mp_corr,      \* the three positive moments
    np_moments,   \* TRUE when the moments are numpy scalars
    der,          \* derived state of the design window
    last,         \* the handler that ran last: its name, the section it was
                  \* called for and that section's rows before the call (0 and
                  \* <<>> when it has no section), whether an exception left it
    view,         \* the section view (View3DWindow) opened from the window
    budget        \* user events left in this behaviour

vars == <<edits, cb_estribo, cb_varilla, rebar_rows, mn_corr, mp_corr,
          np_moments, der, last, view, budget>>

\* bound on the number of user events of one behaviour of Spec
MaxEvents == 2

\* bound on the number of "+" / "-" clicks of one behaviour of SpecRows
MaxRowClicks == 5

\* combo items and field texts the model's user picks from
QtyChoices == {"", "2", "3"}

DiaChoices == {"", "1/2\"", "3/4\""}

CapaChoices == {"1", "2", "3", "4"}

EstriboChoices == {"8mm", "3/8\"", "1/2\""}

VarillaChoices == {"1/2\"", "5/8\"", "3/4\"", "1\""}

FieldNames == {"b", "h", "r", "fc", "fy", "phi"}

FieldTexts ==
    [f \in FieldNames |->
        CASE f = "b" -> {"30", "20", ""}
          [] f = "h" -> {"50", "4", ""}
          [] f = "r" -> {"4", ""}
          [] f = "fc" -> {"210", "350", ""}
          [] f = "fy" -> {"4200", "0", ""}
          [] f = "phi" -> {"0.9", "0", ""}]

\* sections whose rows the user of Spec edits
EditSections == {1, 5}

\* corrected moments handed to the constructor
MomentCases == {<< <<-10000, -2000, -60000>>, <<5000, 20000, 0>> >>}

\* the widgets as _build_ui creates them, before its three closing calls
DefaultRow == [qty |-> "2", dia |-> "1/2\"", capa |-> "1"]

DefaultEdits ==
    [b |-> "30", h |-> "50", r |-> "4", fc |-> "210", fy |-> "4200",
     phi |-> "0.9"]

BlankDerived ==
    [d_text |-> <<"", 0>>, layer_combo |-> "1",
     as_min |-> Zero, as_max |-> Zero,
     as_min_label |-> <<"%.2f", 0>>, as_max_label |-> <<"%.2f", 0>>,
     req_shown |-> [i \in 1..6 |-> <<"", 0>>],
     des_shown |-> [i \in 1..6 |-> << <<"", 0>>, "" >>],
     as_total |-> 0,
     base_req_label |-> <<"-", 0>>, base_msg_label |-> ""]

\* no section view has been opened: DesignWindow has no view3d attribute
ViewClosed ==
    [open |-> FALSE, neg_orders |-> <<>>, pos_orders |-> <<>>,
     selected |-> <<>>, selected_patch |-> <<>>, dragging |-> FALSE,
     moved |-> {},
     circles |-> [i \in 1..3 |-> [pos |-> <<>>, neg |-> <<>>]]]

\* lines 375-377: the closing calls of _build_ui
Built(E, est, var, rows, mn, mp, np) ==
    _redraw(BlankDerived, E, est, var, rows, mn, mp, np)

InitMoments ==
    /\ \E mc \in MomentCases : mn_corr = mc[1] /\ mp_corr = mc[2]
    /\ np_moments \in BOOLEAN

InitDerived ==
    \E res \in {Built(edits, cb_estribo, cb_varilla, rebar_rows, mn_corr,
                      mp_corr, np_moments)} :
        /\ der = res.D
        /\ last = [ev |-> "__init__", sec |-> 0, rows0 |-> <<>>,
                   raised |-> res.raised]

\* the window as constructed
Init ==
    /\ edits = DefaultEdits
    /\ cb_estribo = "3/8\""
    /\ cb_varilla = "5/8\""
    /\ rebar_rows = [i \in Sections |-> <<DefaultRow>>]
    /\ InitMoments
    /\ InitDerived
    /\ view = ViewClosed
    /\ budget = MaxEvents

(***************************************************************************)
(* Events of the design window                                             *)
(***************************************************************************)
Tick == budget > 0 /\ budget' = budget - 1

\* slot update_design_as / _redraw run on the inputs of the next state
Finish(ev, sec, rows0, res0) ==
    \E res \in {res0} :
        /\ der' = res.D
        /\ last' = [ev |-> ev, sec |-> sec, rows0 |-> rows0,
                    raised |-> res.raised]

\* "+" with the row limit off by one: a fifth row is let in
_add_rebar_row_limit5(idx) ==
    /\ rebar_rows' = IF Len(rebar_rows[idx]) > 4 THEN rebar_rows
                     ELSE [rebar_rows EXCEPT ![idx] = Append(@, DefaultRow)]
    /\ last' = [ev |-> "_add_rebar_row", sec |-> idx,
                rows0 |-> rebar_rows[idx], raised |-> FALSE]
    /\ UNCHANGED <<edits, cb_estribo, cb_varilla, mn_corr, mp_corr,
                   np_moments, der, view>>

\* "+" of any row of section idx
_add_rebar_row(idx) ==
    /\ rebar_rows' = IF Len(rebar_rows[idx]) >= 4 THEN rebar_rows
                     ELSE [rebar_rows EXCEPT ![idx] = Append(@, DefaultRow)]
    /\ last' = [ev |-> "_add_rebar_row", sec |-> idx,
                rows0 |-> rebar_rows[idx], raised |-> FALSE]
    /\ UNCHANGED <<edits, cb_estribo, cb_varilla, mn_corr, mp_corr,
                   np_moments, der, view>>

RemoveAt(q, k) == [j \in 1..(Len(q) - 1) |-> IF j < k THEN q[j] ELSE q[j + 1]]

\* "-" of row k of section idx
_remove_rebar_row(idx, k) ==
    /\ k \in 1..Len(rebar_rows[idx])
    /\ UNCHANGED <<edits, cb_estribo, cb_varilla, mn_corr, mp_corr,
                   np_moments, view>>
    /\ IF Len(rebar_rows[idx]) <= 1
       THEN /\ UNCHANGED <<rebar_rows, der>>
            /\ last' = [ev |-> "_remove_rebar_row", sec |-> idx,
                        rows0 |-> rebar_rows[idx], raised |-> FALSE]
       ELSE /\ rebar_rows' = [rebar_rows EXCEPT ![idx] = RemoveAt(@, k)]
            /\ Finish("_remove_rebar_row", idx, rebar_rows[idx],
                      update_design_as(der, edits, cb_estribo, cb_varilla,
                                       rebar_rows', mn_corr, mp_corr,
                                       np_moments))

\* currentIndexChanged of a combo of row k of section idx
RowComboChanged(idx, k, field, text) ==
    /\ k \in 1..Len(rebar_rows[idx])
    /\ rebar_rows[idx][k][field] # text
    /\ rebar_rows' = [rebar_rows EXCEPT ![idx][k][field] = text]
    /\ UNCHANGED <<edits, cb_estribo, cb_varilla, mn_corr, mp_corr,
                   np_moments, view>>
    /\ Finish("row_" \o field, idx, rebar_rows[idx],
              update_design_as(der, edits, cb_estribo, cb_varilla,
                               rebar_rows', mn_corr, mp_corr, np_moments))

\* editingFinished of a field
EditingFinished(f, text) ==
    /\ edits' = [edits EXCEPT ![f] = text]
    /\ UNCHANGED <<cb_estribo, cb_varilla, rebar_rows, mn_corr, mp_corr,
                   np_moments, view>>
    /\ Finish("editingFinished", 0, <<>>,
              _redraw(der, edits', cb_estribo, cb_varilla, rebar_rows,
                      mn_corr, mp_corr, np_moments))

\* currentIndexChanged of cb_estribo
EstriboChanged(text) ==
    /\ cb_estribo # text
    /\ cb_estribo' = text
    /\ UNCHANGED <<edits, cb_varilla, rebar_rows, mn_corr, mp_corr,
                   np_moments, view>>
    /\ Finish("cb_estribo", 0, <<>>,
              _redraw(der, edits, text, cb_varilla, rebar_rows,
                      mn_corr, mp_corr, np_moments))

\* currentIndexChanged of cb_varilla
VarillaChanged(text) ==
    /\ cb_varilla # text
    /\ cb_varilla' = text
    /\ UNCHANGED <<edits, cb_estribo, rebar_rows, mn_corr, mp_corr,
                   np_moments, view>>
    /\ Finish("cb_varilla", 0, <<>>,
              _redraw(der, edits, cb_estribo, text, rebar_rows,
                      mn_corr, mp_corr, np_moments))

\* clicked of btn_memoria: the report is built from the window and handed to
\* the report generator; the window itself is left as it was
show_memoria ==
    /\ last' = [ev |-> "show_memoria", sec |-> 0, rows0 |-> <<>>,
                raised |-> _build_memoria(edits, cb_estribo, cb_varilla,
                                          rebar_rows, mn_corr, mp_corr,
                                          np_moments).out = "raise"]
    /\ UNCHANGED <<edits, cb_estribo, cb_varilla, rebar_rows, mn_corr,
                   mp_corr, np_moments, der, view>>

Next ==
    \/ \E idx \in EditSections : Tick /\ _add_rebar_row(idx)
    \/ \E idx \in EditSections, k \in 1..4 : Tick /\ _remove_rebar_row(idx, k)
    \/ \E idx \in EditSections, k \in 1..4, t \in QtyChoices :
          Tick /\ RowComboChanged(idx, k, "qty", t)
    \/ \E idx \in EditSections, k \in 1..4, t \in DiaChoices :
          Tick /\ RowComboChanged(idx, k, "dia", t)
    \/ \E idx \in EditSections, k \in 1..4, t \in CapaChoices :
          Tick /\ RowComboChanged(idx, k, "capa", t)
    \/ \E f \in FieldNames : \E t \in FieldTexts[f] :
          Tick /\ EditingFinished(f, t)
    \/ \E t \in EstriboChoices : Tick /\ EstriboChanged(t)
    \/ \E t \in VarillaChoices : Tick /\ VarillaChanged(t)
    \/ Tick /\ show_memoria

Spec == Init /\ [][Next]_vars

(***************************************************************************)
(* SpecRows: "+" and "-" clicks on the six sections                        *)
(***************************************************************************)
InitRows ==
    /\ edits = DefaultEdits
    /\ cb_estribo = "3/8\""
    /\ cb_varilla = "5/8\""
    /\ rebar_rows = [i \in Sections |-> <<DefaultRow>>]
    /\ InitMoments
    /\ InitDerived
    /\ view = ViewClosed
    /\ budget = MaxRowClicks

NextRows ==
    \/ \E idx \in Sections : Tick /\ _add_rebar_row(idx)
    \/ \E idx \in Sections, k \in 1..4 : Tick /\ _remove_rebar_row(idx, k)

SpecRows == InitRows /\ [][NextRows]_vars

(***************************************************************************)
(* SpecCalc: the required-area chain on a range of section data.  The      *)
(* window holds fields the user typed and moments the constructor was      *)
(* given; a change of the stirrup or bar combo recomputes, the report      *)
(* button builds the report.                                               *)
(***************************************************************************)
MaxCalcEvents == 1

FieldTextsCalc ==
    [f \in FieldNames |->
        CASE f = "b" -> {"30", "20", "-30"}
          [] f = "h" -> {"50", "4"}
          [] f = "r" -> {"4"}
          [] f = "fc" -> {"210", "280", "350", "700"}
          [] f = "fy" -> {"4200"}
          [] f = "phi" -> {"0.9", "0.75"}]

MomentCasesCalc ==
    {<< <<-10000, -2000, -60000>>, <<5000, 20000, 0>> >>,
     << <<-50000, -80000, -60000>>, <<70000, 20000, 0>> >>}

\* the window after the fields were typed, the last editingFinished having
\* recomputed everything
InitCalc ==
    /\ \E tb \in FieldTextsCalc["b"], th \in FieldTextsCalc["h"],
          tr \in FieldTextsCalc["r"], tfc \in FieldTextsCalc["fc"],
          tfy \in FieldTextsCalc["fy"], tphi \in FieldTextsCalc["phi"] :
          edits = [b |-> tb, h |-> th, r |-> tr, fc |-> tfc, fy |-> tfy,
                   phi |-> tphi]
    /\ cb_estribo = "3/8\""
    /\ cb_varilla = "5/8\""
    /\ rebar_rows = [i \in Sections |-> <<DefaultRow>>]
    /\ \E mc \in MomentCasesCalc : mn_corr = mc[1] /\ mp_corr = mc[2]
    /\ np_moments \in BOOLEAN
    /\ \E res \in {Built(edits, cb_estribo, cb_varilla, rebar_rows, mn_corr,
                          mp_corr, np_moments)} :
          /\ ~res.raised
          /\ der = res.D
          /\ last = [ev |-> "editingFinished", sec |-> 0, rows0 |-> <<>>,
                     raised |-> FALSE]
    /\ view = ViewClosed
    /\ budget = MaxCalcEvents

NextCalc ==
    \/ \E t \in EstriboChoices : Tick /\ EstriboChanged(t)
    \/ \E t \in VarillaChoices : Tick /\ VarillaChanged(t)
    \/ Tick /\ show_memoria

SpecCalc == InitCalc /\ [][NextCalc]_vars

(***************************************************************************)
(* View3DWindow: the section view.  It reads the design window D =         *)
(* [edits, cb_estribo, rebar_rows] and writes only its own fields.         *)
(* Sections, bar indices and gids are 0-based as in the code.  circles are *)
(* the circles on the axes by section and sign, moved the gids of those    *)
(* whose centre a drag has taken off the place they were drawn at;         *)
(* selected_patch is [gid, x, on_canvas], on_canvas telling whether the    *)
(* artist is still one of the circles on the axes.                         *)
(***************************************************************************)
RECURSIVE Repeat(_, _)
\* [x] * n
Repeat(x, n) == IF n <= 0 THEN <<>> ELSE <<x>> \o Repeat(x, n - 1)

RECURSIVE CollectBars(_, _, _)
\* the loop of lines 196-206 over rows i..Len(seq)
CollectBars(seq, i, layers) ==
    IF i > Len(seq) THEN layers
    ELSE IF QtyOf(seq[i]) <= 0 \/ DictGet(DIAM_CM, seq[i].dia) = 0
         THEN CollectBars(seq, i + 1, layers)
    ELSE CollectBars(seq, i + 1,
            [layers EXCEPT ![LayerOf(seq[i])] =
                @ \o Repeat(<<DictGet(DIAM_CM, seq[i].dia), seq[i].dia>>,
                            QtyOf(seq[i]))])

\* the bars (dia, key) of section idx by layer; a layer without bars is no
\* key of the dict the code returns
_collect_bars(rows, idx) ==
    CollectBars(rows[idx + 1], 1, [l \in 1..4 |-> <<>>])

RECURSIVE CollectOrder(_, _)
\* the loop of lines 212-220 over rows i..Len(seq)
CollectOrder(seq, i) ==
    IF i > Len(seq) THEN <<>>
    ELSE IF QtyOf(seq[i]) <= 0 \/ seq[i].dia \notin DOMAIN DIAM_CM
         THEN CollectOrder(seq, i + 1)
    ELSE Repeat(seq[i].dia, QtyOf(seq[i])) \o CollectOrder(seq, i + 1)

_collect_order(rows, idx) == CollectOrder(rows[idx + 1], 1)

\* [self._collect_order(i + off) for i in range(3)]
CollectOrders(rows, off) == [i \in 1..3 |-> _collect_order(rows, i - 1 + off)]

\* Python's lst[a:b] for 0 <= a <= b
Slice(lst, a, b) ==
    [j \in 1..(Max2(0, (IF b < Len(lst) THEN b ELSE Len(lst)) - a)) |->
        lst[a + j]]

RECURSIVE PlotLayers(_, _, _, _)
\* the loops of lines 299-319 and 321-342 from layer l on: the keys of the
\* circles drawn, in gid order (gid = start + j)
PlotLayers(layers, order, l, start) ==
    IF l > 4 THEN <<>>
    ELSE IF layers[l] = <<>> THEN PlotLayers(layers, order, l + 1, start)
    ELSE The({bars \o PlotLayers(layers, order, l + 1, start + Len(bars))
           : bars \in {IF Slice(order, start, start + Len(layers[l])) # <<>>
                       THEN Slice(order, start, start + Len(layers[l]))
                       ELSE [j \in 1..Len(layers[l]) |-> layers[l][j][2]]} })

RECURSIVE PlotByLayer(_, _, _, _)
\* the same loops from layer l on: the keys of the circles drawn at the
\* height of each layer
PlotByLayer(layers, order, l, start) ==
    IF l > 4 THEN [k \in 1..4 |-> <<>>]
    ELSE IF layers[l] = <<>> THEN PlotByLayer(layers, order, l + 1, start)
    ELSE The({[PlotByLayer(layers, order, l + 1, start + Len(bars))
                 EXCEPT ![l] = bars]
           : bars \in {IF Slice(order, start, start + Len(layers[l])) # <<>>
                       THEN Slice(order, start, start + Len(layers[l]))
                       ELSE [j \in 1..Len(layers[l]) |-> layers[l][j][2]]} })

\* the circles _plot_section leaves on the axes of section idx
_plot_section(V, rows, idx) ==
    [pos |-> PlotLayers(_collect_bars(rows, idx + 3),
                        IF idx < Len(V.pos_orders) THEN V.pos_orders[idx + 1]
                        ELSE <<>>, 1, 0),
     neg |-> PlotLayers(_collect_bars(rows, idx),
                        IF idx < Len(V.neg_orders) THEN V.neg_orders[idx + 1]
                        ELSE <<>>, 1, 0)]

\* draw_views taking no notice of reset_orders
draw_views_keep(V0, D, reset_orders) ==
    IF ~IsFloatText(D.edits.b) \/ ~IsFloatText(D.edits.h)
         \/ ~IsFloatText(D.edits.r)
    THEN V0
    ELSE The({[V EXCEPT !.circles =
                  [i \in 1..3 |-> _plot_section(V, D.rebar_rows, i - 1)],
                        !.moved = {},
                        !.selected_patch =
                            IF @ = <<>> THEN @
                            ELSE [@ EXCEPT !.on_canvas = FALSE]]
           : V \in {[V0 EXCEPT
                      !.neg_orders =
                          IF V0.neg_orders = <<>>
                          THEN CollectOrders(D.rebar_rows, 0) ELSE @,
                      !.pos_orders =
                          IF V0.pos_orders = <<>>
                          THEN CollectOrders(D.rebar_rows, 3) ELSE @]} })

\* draw_views: nothing happens unless b, h and r are numeric; ax.clear() of
\* _plot_section takes every old circle off the axes
draw_views(V0, D, reset_orders) ==
    IF ~IsFloatText(D.edits.b) \/ ~IsFloatText(D.edits.h)
         \/ ~IsFloatText(D.edits.r)
    THEN V0
    ELSE The({[V EXCEPT !.circles =
                  [i \in 1..3 |-> _plot_section(V, D.rebar_rows, i - 1)],
                        !.moved = {},
                        !.selected_patch =
                            IF @ = <<>> THEN @
                            ELSE [@ EXCEPT !.on_canvas = FALSE]]
           : V \in {[V0 EXCEPT
                      !.neg_orders =
                          IF reset_orders \/ V0.neg_orders = <<>>
                          THEN CollectOrders(D.rebar_rows, 0) ELSE @,
                      !.pos_orders =
                          IF reset_orders \/ V0.pos_orders = <<>>
                          THEN CollectOrders(D.rebar_rows, 3) ELSE @]} })

\* View3DWindow.__init__
NewView(D) ==
    draw_views([open |-> TRUE, neg_orders |-> <<>>, pos_orders |-> <<>>,
                selected |-> <<>>, selected_patch |-> <<>>,
                dragging |-> FALSE, moved |-> {},
                circles |-> [i \in 1..3 |-> [pos |-> <<>>, neg |-> <<>>]]],
               D, FALSE)

\* self.pos_orders / self.neg_orders
OrdersOf(V, sign) == IF sign = "pos" THEN V.pos_orders ELSE V.neg_orders

WithOrders(V, sign, orders) ==
    IF sign = "pos" THEN [V EXCEPT !.pos_orders = orders]
    ELSE [V EXCEPT !.neg_orders = orders]

\* orders, filled in place from the design when it is the empty list
FilledOrders(V, D, sign) ==
    IF OrdersOf(V, sign) = <<>>
    THEN CollectOrders(D.rebar_rows, IF sign = "pos" THEN 3 ELSE 0)
    ELSE OrdersOf(V, sign)

change_order(V, D, sign, section, new_order) ==
    IF sign \notin {"pos", "neg"} THEN V
    ELSE IF ~(0 <= section /\ section < 3) THEN V
    ELSE draw_views(
            WithOrders(V, sign,
                [FilledOrders(V, D, sign) EXCEPT ![section + 1] = new_order]),
            D, FALSE)

\* lst with the elements at the 0-based places i and j exchanged
Swapped(lst, i, j) ==
    [k \in 1..Len(lst) |-> IF k = i + 1 THEN lst[j + 1]
                           ELSE IF k = j + 1 THEN lst[i + 1] ELSE lst[k]]

swap_bars(V, D, sign, section, i, j) ==
    IF sign \notin {"pos", "neg"} THEN V
    ELSE IF ~(0 <= section /\ section < 3) THEN V
    ELSE The({IF ~(0 <= i /\ i < Len(orders[section + 1])
                    /\ 0 <= j /\ j < Len(orders[section + 1]))
              THEN WithOrders(V, sign, orders)
              ELSE draw_views(
                     WithOrders(V, sign,
                        [orders EXCEPT ![section + 1] = Swapped(@, i, j)]),
                     D, FALSE)
           : orders \in {FilledOrders(V, D, sign)} })

\* the value written at new_idx over the one that was there
Moved_overwrite(lst, idx, new_idx) ==
    [k \in 1..Len(lst) |-> IF k = new_idx + 1 THEN lst[idx + 1] ELSE lst[k]]

\* lst.pop(idx) followed by lst.insert(new_idx, val), 0-based
Moved(lst, idx, new_idx) ==
    [k \in 1..Len(lst) |->
        IF k = new_idx + 1 THEN lst[idx + 1]
        ELSE IF idx < new_idx /\ idx + 1 <= k /\ k <= new_idx THEN lst[k + 1]
        ELSE IF new_idx < idx /\ new_idx + 1 < k /\ k <= idx + 1
             THEN lst[k - 1]
        ELSE lst[k]]

\* max(0, min(new_idx, len(lst) - 1))
ClampIndex(new_idx, n) ==
    Max2(0, IF new_idx < n - 1 THEN new_idx ELSE n - 1)

move_bar(V, D, sign, section, idx, new_idx) ==
    IF sign \notin {"pos", "neg"} THEN V
    ELSE IF ~(0 <= section /\ section < 3) THEN V
    ELSE The({IF ~(0 <= idx /\ idx < Len(orders[section + 1]))
              THEN WithOrders(V, sign, orders)
              ELSE IF idx = ClampIndex(new_idx, Len(orders[section + 1]))
                   THEN WithOrders(V, sign, orders)
              ELSE draw_views(
                     WithOrders(V, sign,
                        [orders EXCEPT ![section + 1] =
                            Moved(@, idx, ClampIndex(new_idx, Len(@)))]),
                     D, FALSE)
           : orders \in {FilledOrders(V, D, sign)} })

\* x-coordinates of the bars of one layer, in input order, spread evenly
\* over the inner width [r + de, b - r - de] (graphics.utilities)
distribute_x(diams, b, r, de) ==
    [i \in 1..Len(diams) |->
        r + de + ((2 * i - 1) * (b - 2 * (r + de))) \div (2 * Len(diams))]

\* min(range(len(xs)), key=lambda i: abs(xs[i] - xdata)): the first nearest
NearestIndex(xs, xdata) ==
    CHOOSE i \in 0..(Len(xs) - 1) :
        /\ \A j \in 0..(Len(xs) - 1) :
              Abs(xs[i + 1] - xdata) <= Abs(xs[j + 1] - xdata)
        /\ \A j \in 0..(i - 1) :
              Abs(xs[j + 1] - xdata) > Abs(xs[i + 1] - xdata)

\* the gids of the circles on the canvas: sign, section, index
Gids(V) ==
    {<<sign, sec, idx>> \in {"pos", "neg"} \X (0..2) \X (0..11) :
        idx < Len(V.circles[sec + 1][sign])}

\* the event handlers return [V, raised]
_on_pick(V, gid) ==
    [V |-> [V EXCEPT !.selected = gid,
                     !.selected_patch = [gid |-> gid, x |-> <<>>,
                                         on_canvas |-> TRUE],
                     !.dragging = TRUE],
     raised |-> FALSE]

_on_key(V, D, key) ==
    IF V.selected = <<>> THEN [V |-> V, raised |-> FALSE]
    ELSE The({
        IF sec >= Len(OrdersOf(V, sign)) THEN [V |-> V, raised |-> TRUE]
        ELSE IF key = "left" /\ idx > 0
             THEN [V |-> [swap_bars(V, D, sign, sec, idx, idx - 1)
                            EXCEPT !.selected = <<sign, sec, idx - 1>>],
                   raised |-> FALSE]
        ELSE IF key = "right" /\ idx < Len(OrdersOf(V, sign)[sec + 1]) - 1
             THEN [V |-> [swap_bars(V, D, sign, sec, idx, idx + 1)
                            EXCEPT !.selected = <<sign, sec, idx + 1>>],
                   raised |-> FALSE]
        ELSE [V |-> V, raised |-> FALSE]
      : sign \in {V.selected[1]}, sec \in {V.selected[2]},
        idx \in {V.selected[3]} })

\* inaxes says whether the pointer is over one of the three section axes;
\* the x of the patch is <<>> while it sits where it was drawn
_on_motion(V, xdata, inaxes) ==
    IF ~V.dragging \/ V.selected_patch = <<>> \/ xdata = <<>>
    THEN [V |-> V, raised |-> FALSE]
    ELSE IF ~inaxes THEN [V |-> V, raised |-> FALSE]
    ELSE [V |-> [V EXCEPT !.selected_patch.x = xdata,
                          !.moved = IF V.selected_patch.on_canvas
                                    THEN @ \cup {V.selected_patch.gid}
                                    ELSE @],
          raised |-> FALSE]

_on_release(V, D, xdata) ==
    IF ~V.dragging \/ V.selected_patch = <<>> \/ V.selected = <<>>
    THEN [V |-> V, raised |-> FALSE]
    ELSE IF xdata = <<>>
    THEN [V |-> [V EXCEPT !.dragging = FALSE, !.selected_patch = <<>>],
          raised |-> FALSE]
    ELSE The({
        IF sec >= Len(OrdersOf(V, sign)) THEN [V |-> V, raised |-> TRUE]
        ELSE IF OrdersOf(V, sign)[sec + 1] = <<>>
             THEN [V |-> V, raised |-> TRUE]
        ELSE The({
            [V |-> [move_bar(V, D, sign, sec, idx, new_idx) EXCEPT
                      !.selected = <<sign, sec, new_idx>>,
                      !.dragging = FALSE,
                      !.selected_patch = <<>>],
             raised |-> FALSE]
          : new_idx \in {NearestIndex(
                distribute_x(
                    [k \in 1..Len(OrdersOf(V, sign)[sec + 1]) |->
                        DictGet(DIAM_CM, OrdersOf(V, sign)[sec + 1][k])],
                    IF geom THEN FloatText[D.edits.b] ELSE 0,
                    IF geom THEN FloatText[D.edits.r] ELSE 0,
                    IF geom THEN DictGet(DIAM_CM, D.cb_estribo) ELSE 0),
                xdata[1])} })
      : sign \in {V.selected[1]}, sec \in {V.selected[2]},
        idx \in {V.selected[3]},
        geom \in {IsFloatText(D.edits.b) /\ IsFloatText(D.edits.r)} })

(***************************************************************************)
(* SpecView: the section view opened on a design window                    *)
(***************************************************************************)
\* the design window as the view reads it
Design == [edits |-> edits, cb_estribo |-> cb_estribo, rebar_rows |-> rebar_rows]

\* arguments the callers of the view pass, valid and invalid
ViewSigns == {"pos", "neg", "top"}

ViewSections == {-1, 0, 3}

ViewIndices == {-1, 0, 1, 5}

NewOrders == {<<>>, <<"1\"", "1/2\"">>}

\* event.xdata: <<>> is None, <<x>> a coordinate in thousandths of a cm
XData == {<<>>, <<6000>>, <<24000>>}

\* bound on the number of events of one behaviour of SpecView
MaxViewEvents == 4

\* rows of the design window the view of SpecView is opened on
ViewRows ==
    [i \in Sections |->
        IF i = 1 THEN <<[qty |-> "1", dia |-> "1/2\"", capa |-> "1"],
                        [qty |-> "1", dia |-> "3/4\"", capa |-> "1"],
                        [qty |-> "1", dia |-> "1/2\"", capa |-> "2"]>>
        ELSE IF i = 4 THEN <<[qty |-> "2", dia |-> "3/4\"", capa |-> "1"],
                             [qty |-> "1", dia |-> "", capa |-> "1"]>>
        ELSE <<DefaultRow>>]

InitView ==
    /\ edits = DefaultEdits
    /\ cb_estribo = "3/8\""
    /\ cb_varilla = "5/8\""
    /\ rebar_rows = ViewRows
    /\ InitMoments
    /\ InitDerived
    /\ view = ViewClosed
    /\ budget = MaxViewEvents

\* a handler of the view ran: only the view and the record of it change
ViewStep(ev, res0) ==
    \E res \in {res0} :
        /\ view' = res.V
        /\ last' = [ev |-> ev, sec |-> 0, rows0 |-> <<>>,
                    raised |-> res.raised]
        /\ UNCHANGED <<edits, cb_estribo, cb_varilla, rebar_rows, mn_corr,
                       mp_corr, np_moments, der>>

\* DesignWindow.show_view3d
show_view3d ==
    ViewStep("show_view3d", [V |-> NewView(Design), raised |-> FALSE])

ChangeOrder(sign, section, new_order) ==
    /\ view.open
    /\ ViewStep("change_order",
                [V |-> change_order(view, Design, sign, section, new_order),
                 raised |-> FALSE])

\* swap_bars exchanging the rows of the design window as well
SwapBars_rows(sign, section, i, j) ==
    /\ view.open
    /\ \E V \in {swap_bars(view, Design, sign, section, i, j)} :
        /\ view' = V
        /\ last' = [ev |-> "swap_bars", sec |-> 0, rows0 |-> <<>>,
                    raised |-> FALSE]
        /\ rebar_rows' =
              IF V = view \/ sign \notin {"pos", "neg"} THEN rebar_rows
              ELSE [rebar_rows EXCEPT
                      ![section + 1 + (IF sign = "pos" THEN 3 ELSE 0)] =
                          IF i < Len(@) /\ j < Len(@) THEN Swapped(@, i, j)
                          ELSE @]
        /\ UNCHANGED <<edits, cb_estribo, cb_varilla, mn_corr, mp_corr,
                       np_moments, der>>

SwapBars(sign, section, i, j) ==
    /\ view.open
    /\ ViewStep("swap_bars",
                [V |-> swap_bars(view, Design, sign, section, i, j),
                 raised |-> FALSE])

MoveBar(sign, section, idx, new_idx) ==
    /\ view.open
    /\ ViewStep("move_bar",
                [V |-> move_bar(view, Design, sign, section, idx, new_idx),
                 raised |-> FALSE])

OnPick(gid) ==
    /\ view.open
    /\ gid \in Gids(view)
    /\ ViewStep("_on_pick", _on_pick(view, gid))

OnKey(key) ==
    /\ view.open
    /\ ViewStep("_on_key", _on_key(view, Design, key))

OnMotion(xdata, inaxes) ==
    /\ view.open
    /\ ViewStep("_on_motion", _on_motion(view, xdata, inaxes))

OnRelease(xdata) ==
    /\ view.open
    /\ ViewStep("_on_release", _on_release(view, Design, xdata))

\* draw_views called on the open view, as the owner of the window does when
\* the user returns to it
DrawViews(reset_orders) ==
    /\ view.open
    /\ ViewStep(IF reset_orders THEN "draw_views(reset_orders=True)"
                ELSE "draw_views()",
                [V |-> draw_views(view, Design, reset_orders),
                 raised |-> FALSE])

NextView ==
    \/ Tick /\ show_view3d
    \/ \E sign \in ViewSigns, section \in ViewSections, o \in NewOrders :
          Tick /\ ChangeOrder(sign, section, o)
    \/ \E sign \in ViewSigns, section \in ViewSections,
          i \in ViewIndices, j \in ViewIndices :
          Tick /\ SwapBars(sign, section, i, j)
    \/ \E sign \in ViewSigns, section \in ViewSections,
          i \in ViewIndices, j \in ViewIndices :
          Tick /\ MoveBar(sign, section, i, j)
    \/ \E gid \in Gids(view) : Tick /\ OnPick(gid)
    \/ \E key \in {"left", "right", "up"} : Tick /\ OnKey(key)
    \/ \E xdata \in XData, inaxes \in BOOLEAN :
          Tick /\ OnMotion(xdata, inaxes)
    \/ \E xdata \in XData : Tick /\ OnRelease(xdata)

SpecView == InitView /\ [][NextView]_vars

(***************************************************************************)
(* SpecLive: the section view open on a design window that goes on being   *)
(* edited, b numeric or not when the view was opened                       *)
(***************************************************************************)
\* bound on the number of events of one behaviour of SpecLive
MaxLiveEvents == 3

\* rows of section M1- when the view is opened: the default row, three bars
\* in two rows of one layer, and two rows whose layers run against the row order
LiveRows ==
    {<<DefaultRow>>,
     <<[qty |-> "2", dia |-> "1/2\"", capa |-> "1"],
       [qty |-> "1", dia |-> "3/4\"", capa |-> "1"]>>,
     <<[qty |-> "1", dia |-> "3/4\"", capa |-> "2"],
       [qty |-> "1", dia |-> "1/2\"", capa |-> "1"]>>}

InitLive ==
    /\ edits \in {DefaultEdits, [DefaultEdits EXCEPT !.b = ""]}
    /\ cb_estribo = "3/8\""
    /\ cb_varilla = "5/8\""
    /\ \E rs \in LiveRows :
          rebar_rows = [i \in Sections |->
                           IF i = 1 THEN rs ELSE <<DefaultRow>>]
    /\ \E mc \in MomentCases : mn_corr = mc[1] /\ mp_corr = mc[2]
    /\ np_moments = TRUE
    /\ \E res \in {Built(edits, cb_estribo, cb_varilla, rebar_rows, mn_corr,
                          mp_corr, np_moments)} :
          der = res.D
    /\ view = NewView(Design)
    /\ last = [ev |-> "show_view3d", sec |-> 0, rows0 |-> <<>>,
               raised |-> FALSE]
    /\ budget = MaxLiveEvents

NextLive ==
    \/ \E t \in {"30", ""} : Tick /\ EditingFinished("b", t)
    \/ \E k \in 1..2, t \in {"1", "2"} :
          Tick /\ RowComboChanged(1, k, "capa", t)
    \/ \E k \in 1..2, t \in {"1/2\"", "3/4\""} :
          Tick /\ RowComboChanged(1, k, "dia", t)
    \/ \E reset_orders \in BOOLEAN : Tick /\ DrawViews(reset_orders)
    \/ \E sign \in ViewSigns, section \in ViewSections, o \in NewOrders :
          Tick /\ ChangeOrder(sign, section, o)
    \/ \E sign \in ViewSigns, section \in ViewSections,
          i \in ViewIndices, j \in ViewIndices :
          Tick /\ SwapBars(sign, section, i, j)
    \/ \E sign \in ViewSigns, section \in ViewSections,
          i \in ViewIndices, j \in ViewIndices :
          Tick /\ MoveBar(sign, section, i, j)
    \/ \E gid \in Gids(view) : Tick /\ OnPick(gid)
    \/ \E key \in {"left", "right", "up"} : Tick /\ OnKey(key)
    \/ \E xdata \in XData, inaxes \in BOOLEAN :
          Tick /\ OnMotion(xdata, inaxes)
    \/ \E xdata \in XData : Tick /\ OnRelease(xdata)

SpecLive == InitLive /\ [][NextLive]_vars

(***************************************************************************)
(* SpecOrder: the window with three rows in section M1-, as "+" clicks and *)
(* combo choices leave it, followed by further choices on those rows       *)
(***************************************************************************)
\* bound on the number of events of one behaviour of SpecOrder
MaxOrderEvents == 1

\* rows of section M1-: every row in layer 1 with 1 or 2 bars of 1/2" or 3/4"
OrderRowChoices ==
    {[qty |-> q, dia |-> d, capa |-> "1"] :
        q \in {"1", "2"}, d \in {"1/2\"", "3/4\""}}

InitOrder ==
    /\ edits = DefaultEdits
    /\ cb_estribo \in EstriboChoices
    /\ cb_varilla = "5/8\""
    /\ \E r1 \in OrderRowChoices, r2 \in OrderRowChoices,
          r3 \in OrderRowChoices :
          rebar_rows = [i \in Sections |->
                           IF i = 1 THEN <<r1, r2, r3>> ELSE <<DefaultRow>>]
    /\ InitMoments
    /\ \E res \in {Built(edits, cb_estribo, cb_varilla, rebar_rows, mn_corr,
                          mp_corr, np_moments)} :
          /\ der = res.D
          /\ last = [ev |-> "editingFinished", sec |-> 0, rows0 |-> <<>>,
                     raised |-> res.raised]
    /\ view = ViewClosed
    /\ budget = MaxOrderEvents

NextOrder ==
    \/ \E k \in 1..3, t \in QtyChoices :
          Tick /\ RowComboChanged(1, k, "qty", t)
    \/ \E k \in 1..3, t \in CapaChoices :
          Tick /\ RowComboChanged(1, k, "capa", t)
    \/ \E k \in 1..3 : Tick /\ _remove_rebar_row(1, k)

SpecOrder == InitOrder /\ [][NextOrder]_vars

(***************************************************************************)
(* Properties                                                              *)
(***************************************************************************)
\* C1: under any sequence of "+" and "-" clicks from the initial window every
\* section keeps between 1 and 4 rows; "+" on a section of 4 rows and "-" on
\* a section of 1 row leave the section's rows as they were.
C1_RowCountBounded ==
    /\ \A i \in Sections : Len(rebar_rows[i]) \in 1..4
    /\ (last.ev = "_add_rebar_row" /\ Len(last.rows0) = 4)
          => rebar_rows[last.sec] = last.rows0
    /\ (last.ev = "_remove_rebar_row" /\ Len(last.rows0) = 1)
          => rebar_rows[last.sec] = last.rows0

\* "+" was clicked on a section that already had 4 rows, in a window where
\* another section is still at its single row
C1_AddAtFour ==
    /\ last.ev = "_add_rebar_row"
    /\ Len(last.rows0) = 4
    /\ \E i \in Sections : Len(rebar_rows[i]) = 1

\* the derived results C2 names: the d field, the provided totals with their
\* statuses, as_total and the required base width
Shown(D) == <<D.d_text, D.des_shown, D.as_total, D.base_req_label>>

\* C2: after every input event the derived results the window holds are the
\* ones computed from the current rows and fields: running the full
\* recomputation again would change none of them.
C2_NeverStale ==
    Shown(der) = Shown(_redraw(der, edits, cb_estribo, cb_varilla, rebar_rows,
                               mn_corr, mp_corr, np_moments).D)

\* what _required_areas returns on the current inputs
Req ==
    _required_areas(edits, cb_estribo, cb_varilla, rebar_rows, mn_corr,
                    mp_corr, np_moments)

\* every field b, h, r, f'c, fy, phi holds a number
AllNumeric == \A f \in FieldNames : IsFloatText(edits[f])

\* lo <= x <= hi as the program's floats compare
Within(x, lo, hi) == DLe(lo, x) /\ DLe(x, hi)

\* C3 as claimed: for every numeric input each clamped required area that
\* _required_areas returns lies between the As_min and As_max of the same pass.
C3_WithinLimits ==
    AllNumeric =>
        \E R \in {Req} :
            R.out = "ok" =>
                \A i \in 1..3 : /\ Within(R.as_n[i], R.as_min, R.as_max)
                                /\ Within(R.as_p[i], R.as_min, R.as_max)

\* one clamped area of a pass with limits lo, hi: between them when they are
\* ordered, equal to hi when lo > hi
ClampedAsAmended(x, lo, hi) ==
    IsNaN(x) \/ IsNaN(lo) \/ IsNaN(hi)
    \/ (DLe(lo, hi) /\ Within(x, lo, hi))
    \/ (DGt(lo, hi) /\ x = hi)

\* C3 amended: for every numeric input on which _required_areas returns, a
\* clamped required area that is a number, with limits that are numbers,
\* lies between As_min and As_max when As_min <= As_max, and equals As_max
\* when As_min > As_max.
C3_WithinOrderedLimits ==
    AllNumeric =>
        \E R \in {Req} :
            R.out = "ok" =>
                \A i \in 1..3 :
                    /\ ClampedAsAmended(R.as_n[i], R.as_min, R.as_max)
                    /\ ClampedAsAmended(R.as_p[i], R.as_min, R.as_max)

\* a pass with ordered limits in which one raw area lay below As_min and
\* another above As_max, and both were clamped
C3_ClampedBothSides ==
    /\ AllNumeric
    /\ last.ev = "cb_estribo"
    /\ \E R \in {Req} :
        /\ R.out = "ok"
        /\ DLt(R.as_min, R.as_max)
        /\ \E i \in 1..3 : DLt(R.raw_n[i], R.as_min) /\ R.as_n[i] = R.as_min
        /\ \E i \in 1..3 : DGt(R.raw_n[i], R.as_max) /\ R.as_n[i] = R.as_max

\* a view handler that reorders bars
ReorderEvents ==
    {"change_order", "swap_bars", "move_bar", "_on_key", "_on_release"}

\* C4: a step of change_order, swap_bars, move_bar, a key press or a release
\* leaves the design window's fields, rows, moments and derived results
\* (required areas, provided totals, required base width) as they were.
C4_ReorderKeepsDesign ==
    [][last'.ev \in ReorderEvents =>
          UNCHANGED <<edits, cb_estribo, cb_varilla, rebar_rows, mn_corr,
                      mp_corr, np_moments, der>>]_vars

\* a drag-and-drop has just put the bars of M1- into an order that differs
\* from the order of the rows
C4_OrderChangedByDrag ==
    /\ view.open
    /\ last.ev = "_on_release"
    /\ ~last.raised
    /\ view.neg_orders[1] # _collect_order(rebar_rows, 0)

\* C5: when one of the six fields is not a number, the required-area
\* computation does not raise and all six required areas are zero.
C5_NonNumericGivesZeros ==
    ~AllNumeric =>
        \E R \in {Req} :
            /\ ~Raised(R)
            /\ \A i \in 1..3 : R.as_n[i] = Zero /\ R.as_p[i] = Zero

\* C6: when all six fields are numbers, however degenerate, the
\* required-area computation (limits and effective depth included) does not
\* raise.
C6_NumericNeverRaises == AllNumeric => ~Raised(Req)

\* the row lists without row k of section i
WithoutRow(rows, i, k) == [rows EXCEPT ![i] = RemoveAt(@, k)]

\* every computation that reads the rows gives, with a row whose key is not
\* in the catalog, the area, the diameters, the depth, the bars and the
\* outcome it gives without the row
CountsNothing(i, k) ==
    \E less \in {WithoutRow(rebar_rows, i, k)} :
        /\ SectionScan(rebar_rows[i]).total = SectionScan(less[i]).total
        /\ SectionScan(rebar_rows[i]).sum_d = SectionScan(less[i]).sum_d
        /\ calc_effective_depth(edits, cb_estribo, cb_varilla, rebar_rows)
             = calc_effective_depth(edits, cb_estribo, cb_varilla, less)
        /\ _collect_bars(rebar_rows, i - 1) = _collect_bars(less, i - 1)
        /\ _collect_order(rebar_rows, i - 1) = _collect_order(less, i - 1)
        /\ _redraw(der, edits, cb_estribo, cb_varilla, rebar_rows, mn_corr,
                   mp_corr, np_moments).raised
             = _redraw(der, edits, cb_estribo, cb_varilla, less, mn_corr,
                       mp_corr, np_moments).raised

\* C7: a row whose diameter key is not in the catalog adds no area to the
\* section's provided total, no diameter to a layer's sum of diameters,
\* nothing to the effective depth and no bar to the section view, and makes
\* no handler raise that would not raise without it.
C7_UnknownKeyCountsNothing ==
    \A i \in Sections : \A k \in 1..Len(rebar_rows[i]) :
        rebar_rows[i][k].dia \notin (DOMAIN BAR_DATA \cup DOMAIN DIAM_CM)
            => CountsNothing(i, k)

\* the diameter combo of a row holding bars has just been emptied, and the
\* handler returned
C7_EmptyDiaChosen ==
    /\ last.ev = "row_dia"
    /\ ~last.raised
    /\ \E k \in 1..Len(rebar_rows[last.sec]) :
           /\ rebar_rows[last.sec][k].dia = ""
           /\ last.rows0[k].dia # ""
           /\ QtyOf(rebar_rows[last.sec][k]) > 0

RECURSIVE LayerTotal(_, _, _)
\* sum of quantity x bar area over the rows i..Len(seq) assigned to layer l
LayerTotal(seq, i, l) ==
    IF i > Len(seq) THEN 0
    ELSE (IF LayerOf(seq[i]) = l
          THEN QtyOf(seq[i]) * DictGet(BAR_DATA, seq[i].dia) ELSE 0)
         + LayerTotal(seq, i + 1, l)

\* each layer's total steel area over the rows calc_effective_depth visits
LayerTotals(rows) == [l \in 1..4 |-> LayerTotal(Flatten(rows, 1), 1, l)]

\* average of depths[1..k] weighted by w, k the highest layer with w > 0
WeightedDepth(depths, w) ==
    LET k == MaxLayerOf(w)
        s == SumSeq([l \in 1..k |-> w[l]], 1)
    IN  IF s = 0 THEN depths[1]
        ELSE SumSeq([l \in 1..k |-> depths[l] * w[l]], 1) \div s

\* C8: when h and r are numbers, the depth calc_effective_depth returns is
\* the average of the layer depths weighted by each layer's total steel
\* area (sum of quantity x bar area over the rows assigned to the layer).
C8_DepthWeightedByLayerTotals ==
    \E eff \in {calc_effective_depth(edits, cb_estribo, cb_varilla,
                                      rebar_rows)} :
        eff.ok => eff.d = WeightedDepth(eff.depths, LayerTotals(rebar_rows))

RECURSIVE LayerCount(_, _, _)
\* number of bars of the rows i..Len(seq) assigned to layer l
LayerCount(seq, i, l) ==
    IF i > Len(seq) THEN 0
    ELSE (IF LayerOf(seq[i]) = l THEN QtyOf(seq[i]) ELSE 0)
         + LayerCount(seq, i + 1, l)

RECURSIVE LayerDiamSum(_, _, _)
\* sum of the diameters of the bars of the rows i..Len(seq) of layer l
LayerDiamSum(seq, i, l) ==
    IF i > Len(seq) THEN 0
    ELSE (IF LayerOf(seq[i]) = l
          THEN QtyOf(seq[i]) * DictGet(DIAM_CM, seq[i].dia) ELSE 0)
         + LayerDiamSum(seq, i + 1, l)

\* max of base_required_layer over the layers 1..4 of a section
BaseAllLayers(seq, r, de) ==
    SetMax({2 * r + 2 * de + Max2(LayerCount(seq, 1, l) - 1, 0) * 2500
            + LayerDiamSum(seq, 1, l) : l \in 1..4})

\* C9: when r is a number, the base width update_design_as requires of each
\* section is the maximum of the layer widths over the layers 1 to 4.
C9_BaseOverFourLayers ==
    IsFloatText(edits.r) =>
        \A i \in Sections :
            SectionBase(SectionScan(rebar_rows[i]), FloatText[edits.r],
                        DictGet(DIAM_CM, cb_estribo))
              = BaseAllLayers(rebar_rows[i], FloatText[edits.r],
                              DictGet(DIAM_CM, cb_estribo))

RECURSIVE ProvidedArea(_, _)
\* sum of quantity x catalog area over the rows i..Len(seq)
ProvidedArea(seq, i) ==
    IF i > Len(seq) THEN 0
    ELSE QtyOf(seq[i]) * DictGet(BAR_DATA, seq[i].dia)
         + ProvidedArea(seq, i + 1)

\* the clamped required area of control point i of M1-, M2-, M3-, M1+, M2+,
\* M3+
ReqOf(R, i) == IF i <= 3 THEN R.as_n[i] ELSE R.as_p[i - 3]

\* C10: when update_design_as returns on the current inputs, it shows for
\* each control point i of M1-, M2-, M3-, M1+, M2+, M3+ the sum of quantity x
\* catalog area over the rows of section i, with "OK" when that sum is >= the
\* clamped required area of control point i and "NO OK" otherwise.
C10_ProvidedAndStatus ==
    \E U \in {update_design_as(der, edits, cb_estribo, cb_varilla,
                               rebar_rows, mn_corr, mp_corr, np_moments)} :
        ~U.raised =>
            \E R \in {Req} :
                \A i \in Sections :
                    \E P \in {ProvidedArea(rebar_rows[i], 1)} :
                        U.D.des_shown[i] =
                            <<Fmt2Centi(P),
                              IF DGe(DF(P, 2), ReqOf(R, i)) THEN "OK"
                              ELSE "NO OK">>

\* a row change has just made M1- sufficient while M2- stays deficient, and
\* the window shows both
C10_OkAndNoOk ==
    /\ last.ev \in {"row_qty", "row_dia"}
    /\ ~last.raised
    /\ der.des_shown[1][2] = "OK"
    /\ der.des_shown[2][2] = "NO OK"
    /\ der.des_shown[1][1] = Fmt2Centi(ProvidedArea(rebar_rows[1], 1))

\* what update_design_as does on the current inputs
Upd ==
    update_design_as(der, edits, cb_estribo, cb_varilla, rebar_rows, mn_corr,
                     mp_corr, np_moments)

\* the greatest required base width of the six sections, each section's
\* width being the greatest of its layers' widths
MaxBaseAllLayers ==
    SetMax({BaseAllLayers(rebar_rows[i], FloatText[edits.r],
                          DictGet(DIAM_CM, cb_estribo)) : i \in Sections})

\* C11: when r and b are numbers and update_design_as returns, the base it
\* reports is the greatest required base width of the six sections, and its
\* base message is "OK" when that width is <= b and "Aumentar base o capa"
\* otherwise.
C11_ReportedBaseIsMax ==
    (IsFloatText(edits.r) /\ IsFloatText(edits.b)) =>
        \E U \in {Upd} :
            ~U.raised =>
                \E mx \in {MaxBaseAllLayers} :
                    /\ U.D.base_req_label = Fmt1Milli(mx)
                    /\ U.D.base_msg_label =
                          IF mx <= FloatText[edits.b] THEN "OK"
                          ELSE "Aumentar base o capa"

\* what _build_memoria returns on the current inputs
Mem ==
    _build_memoria(edits, cb_estribo, cb_varilla, rebar_rows, mn_corr,
                   mp_corr, np_moments)

\* C12: on the same inputs, when the report is built and update_design_as
\* returns, each row of verif_table carries the required area that
\* _required_areas gives for its control point (as the text of two
\* decimals), and its verdict is "Cumple" exactly when the status the view
\* shows for that control point is "OK".
C12_ReportMatchesView ==
    \E M \in {Mem}, U \in {Upd}, R \in {Req} :
        (M.out = "ok" /\ ~U.raised) =>
            \A i \in Sections :
                /\ M.verif_table[i][1] = Fmt2(ReqOf(R, i))
                /\ (M.verif_table[i][3] = "Cumple")
                      <=> (U.D.des_shown[i][2] = "OK")

\* what calc_effective_depth returns on the current inputs
Eff == calc_effective_depth(edits, cb_estribo, cb_varilla, rebar_rows)

\* quantity x bar area of a row
RowArea(row) == QtyOf(row) * DictGet(BAR_DATA, row.dia)

\* the rows, of all sections, assigned to layer l that have a positive area
LayerEntries(l) ==
    {row \in {Flatten(rebar_rows, 1)[j] :
                 j \in 1..Len(Flatten(rebar_rows, 1))} :
        LayerOf(row) = l /\ RowArea(row) > 0}

\* C13: when h and r are numbers, the diameter calc_effective_depth uses for
\* a layer of 1..4 is the diameter of a row of greatest quantity x area among
\* the rows of that layer with a positive area, and the diameter of
\* cb_varilla when the layer has no such row.
C13_RepresentativeDiameter ==
    \E eff \in {Eff} :
        eff.ok =>
            \A l \in 1..4 :
                \E S \in {LayerEntries(l)} :
                    IF S = {} THEN eff.diams[l] = DictGet(DIAM_CM, cb_varilla)
                    ELSE \E row \in S :
                            /\ \A other \in S : RowArea(other) <= RowArea(row)
                            /\ eff.diams[l] = DictGet(DIAM_CM, row.dia)

\* a diameter has just been changed so that layer 1 holds rows of different
\* areas and diameters, the greatest not being the last, while layer 2 holds
\* no bars
C13_MixedLayer ==
    /\ last.ev = "row_dia"
    /\ ~last.raised
    /\ Eff.ok
    /\ \E a \in LayerEntries(1), c \in LayerEntries(1) :
           RowArea(a) < RowArea(c) /\ a.dia # c.dia
    /\ RowArea(rebar_rows[6][1]) < RowArea(rebar_rows[1][1])
    /\ LayerEntries(2) = {}
    /\ cb_varilla # "3/4\""

\* the average of depths[1..k] weighted by w[1..k], depths[1] when the
\* weights sum to zero
AverageUpTo(depths, w, k) ==
    LET s == SumSeq([l \in 1..k |-> w[l]], 1)
    IN  IF s = 0 THEN depths[1]
        ELSE SumSeq([l \in 1..k |-> depths[l] * w[l]], 1) \div s

\* the layers of 1..4 that hold a row of nonzero area
PopulatedLayers == {l \in 1..4 : LayerEntries(l) # {}}

\* C14: when h and r are numbers, the layer count calc_effective_depth
\* reports and writes to layer_combo is the greatest layer of 1..4 holding a
\* row of nonzero area (1 when there is none), and the depth it returns is
\* the weighted average of the depths of the layers 1..k only.
C14_ActiveLayerCount ==
    \E eff \in {Eff} :
        eff.ok =>
            \E k \in {SetMax(PopulatedLayers \cup {1})} :
                /\ eff.max_layer = k
                /\ EffDepthWrites(der, eff).layer_combo = StrOfLayer(k)
                /\ eff.d = AverageUpTo(eff.depths, eff.areas, k)

\* a row has just been moved so that layers 1 and 3 hold bars and layer 2
\* none, and the window shows 3 layers
C14_GapInLayers ==
    /\ last.ev = "row_capa"
    /\ ~last.raised
    /\ PopulatedLayers = {1, 3}
    /\ Eff.ok
    /\ der.layer_combo = "3"

\* C15: in every call of _calc_as_req that returns with a negative radicand,
\* the value passed to the square root is 0 and the result is exactly
\* term = 1.7 fc b d / (2 fy); no call passes a negative value to the square
\* root.
C15_NegativeRadicandGivesTerm ==
    \E R \in {Req} :
        R.out = "ok" =>
            \A i \in Sections :
                /\ ~DLt(PyMax0(R.calc[i].root), Zero)
                /\ DLt(R.calc[i].root, Zero) =>
                      /\ PyMax0(R.calc[i].root) = Zero
                      /\ R.calc[i].val = R.calc[i].term

\* a recomputation has just run on moments of which one is within the
\* section's capacity (positive radicand) and one beyond it (negative
\* radicand, result term)
C15_BeyondCapacity ==
    /\ last.ev \in {"cb_estribo", "cb_varilla"}
    /\ ~last.raised
    /\ \E R \in {Req} :
        /\ R.out = "ok"
        /\ \E i \in Sections : DGt(R.calc[i].root, Zero)
        /\ \E i \in Sections :
              /\ DLt(R.calc[i].root, Zero)
              /\ R.calc[i].val = R.calc[i].term
              /\ DGt(R.calc[i].term, Zero)

\* the six moments in the order of the six calls of _calc_as_req
Moments == mn_corr \o mp_corr

\* b, d, f'c, fy and phi of the pass R are positive
PositiveData(R) ==
    /\ \A f \in {"b", "fc", "fy", "phi"} : FloatText[edits[f]] > 0
    /\ R.eff.d > 0

\* C16: for positive b, d, f'c, fy and phi, the raw area of _calc_as_req does
\* not decrease when |moment| grows: of two moments of the same pass with
\* |M1| <= |M2| the result for M1 is <= the result for M2, and when the
\* radicand of M1 is already <= 0 both results are term.
C16_MonotoneInMoment ==
    \E R \in {Req} :
        (R.out = "ok" /\ PositiveData(R)) =>
            \A i \in Sections, j \in Sections :
                Abs(Moments[i]) <= Abs(Moments[j]) =>
                    /\ DLe(R.calc[i].val, R.calc[j].val)
                    /\ DLe(R.calc[i].root, Zero) =>
                          /\ R.calc[i].val = R.calc[i].term
                          /\ R.calc[j].val = R.calc[i].term

\* a recomputation has just run on positive data with two moments of
\* different size within capacity, the larger giving the larger area, and
\* two of different size beyond it, both giving term
C16_GrowthAndPlateau ==
    /\ last.ev \in {"cb_estribo", "cb_varilla"}
    /\ ~last.raised
    /\ \E R \in {Req} :
        /\ R.out = "ok"
        /\ PositiveData(R)
        /\ \E i \in Sections, j \in Sections :
              /\ Abs(Moments[i]) < Abs(Moments[j])
              /\ DGt(R.calc[j].root, Zero)
              /\ DLt(R.calc[i].val, R.calc[j].val)
        /\ \E i \in Sections, j \in Sections :
              /\ Abs(Moments[i]) < Abs(Moments[j])
              /\ DLt(R.calc[i].root, Zero)
              /\ R.calc[j].val = R.calc[i].val

\* 0.85 for fc <= 280 and 0.85 - ((fc - 280) / 70) * 0.05 above, in
\* thousandths, for fc in thousandths
Beta1Milli(fc) ==
    IF fc <= 280000 THEN 850 ELSE 850 - ((fc - 280000) * 50) \div 70000

\* 0.75 * (0.85 fc beta1 / fy) * (6000 / (6000 + fy)) * b * d
AsMaxWith(beta1, fc, fy, b, d) ==
    DMul(DMul(DMul(DF(75, 2),
                   DMul(DDiv(DMul(DMul(DF(85, 2), fc), beta1), fy),
                        DDiv(DF(6000, 0), DAdd(DF(6000, 0), fy)))),
              b), d)

\* C17: when the limits are computed and the report is built, beta1 is 0.85
\* for fc <= 280 and 0.85 - ((fc - 280) / 70) * 0.05 for fc > 280, with no
\* floor; As_max of _calc_as_limits is computed with it, and the beta1 of
\* the report is the same.
C17_Beta1 ==
    \E R \in {Req}, M \in {Mem} :
        (R.out = "ok" /\ M.out = "ok") =>
            \E beta1 \in {DF(Beta1Milli(FloatText[edits.fc]), 3)} :
                /\ R.beta1 = beta1
                /\ M.beta1 = beta1
                /\ R.as_max = AsMaxWith(beta1, DF(FloatText[edits.fc], 3),
                                        DF(FloatText[edits.fy], 3),
                                        DF(FloatText[edits.b], 3),
                                        DF(R.eff.d, 3))

\* the report has just been built for a concrete of f'c = 700, whose beta1
\* 0.55 lies below 0.65
C17_HighStrength ==
    /\ last.ev = "show_memoria"
    /\ ~last.raised
    /\ edits.fc = "700"
    /\ Mem.out = "ok"
    /\ Mem.beta1 = DF(55, 2)
    /\ Req.beta1 = DF(55, 2)

\* the depth of layer l of 1..4 as C18 states it, lengths in thousandths
ClaimedDepth(l, h, r, de, db) ==
    CASE l = 1 -> h - r - de - db[1] \div 2
      [] l = 2 -> h - r - de - db[1] - 2500 - db[2] \div 2
      [] l = 3 -> h - r - de - db[1] - 2500 - db[2] - 2500 - db[3] \div 2
      [] l = 4 -> (h - r - de - db[1] - 2500 - db[2] - 2500 - db[3] \div 2)
                  - 3000

\* C18: when h and r are numbers, the depth calc_effective_depth uses for
\* each layer l up to the active layer count is d1 = h - r - de - 0.5 db1,
\* d2 = h - r - de - db1 - 2.5 - 0.5 db2, d3 = h - r - de - db1 - 2.5 - db2
\* - 2.5 - 0.5 db3, d4 = d3 - 3, and with representative diameters >= 0 a
\* deeper layer has the strictly smaller depth.
C18_LayerDepths ==
    \E eff \in {Eff} :
        eff.ok =>
            /\ \A l \in 1..eff.max_layer :
                  eff.depths[l] =
                      ClaimedDepth(l, FloatText[edits.h], FloatText[edits.r],
                                   DictGet(DIAM_CM, cb_estribo), eff.diams)
            /\ (\A l \in 1..4 : eff.diams[l] >= 0) =>
                  \A l \in 1..eff.max_layer, m \in 1..eff.max_layer :
                      l < m => eff.depths[l] > eff.depths[m]

\* a row has just been moved to layer 4, so that the four depths are in use
C18_FourLayers ==
    /\ last.ev = "row_capa"
    /\ ~last.raised
    /\ Eff.ok
    /\ Eff.max_layer = 4
    /\ Eff.depths[4] = Eff.depths[3] - 3000
    /\ der.layer_combo = "4"

\* C19: when r is a number, the width update_design_as computes for a layer
\* of a section is 2 r + 2 de + max(n - 1, 0) 2.5 + the sum of the diameters
\* of the n bars of the layer, n the bar count of all the rows of the layer;
\* it is 20.63 for 3 bars of diameter 1.91 with r = 4 and de = 0.95, and
\* 2 r + 2 de for a layer without bars.
C19_LayerBase ==
    IsFloatText(edits.r) =>
        \A i \in Sections : \A l \in BaseLayers :
            \E b_l \in {LayerBase(SectionScan(rebar_rows[i]), l,
                                  FloatText[edits.r],
                                  DictGet(DIAM_CM, cb_estribo))},
               n_l \in {LayerCount(rebar_rows[i], 1, l)},
               r \in {FloatText[edits.r]},
               de \in {DictGet(DIAM_CM, cb_estribo)} :
                /\ b_l = 2 * r + 2 * de + Max2(n_l - 1, 0) * 2500
                          + LayerDiamSum(rebar_rows[i], 1, l)
                /\ n_l = 0 => b_l = 2 * r + 2 * de
                /\ (/\ n_l = 3
                    /\ LayerDiamSum(rebar_rows[i], 1, l) = 3 * 1910
                    /\ r = 4000
                    /\ de = 950) => b_l = 20630

\* the first section has just got 3 bars of 3/4" in layer 1 and none in
\* layer 2, and the label shows the 20.63 of its layer 1
C19_ThreeBars ==
    /\ last.ev \in {"row_qty", "row_dia"}
    /\ last.sec = 1
    /\ ~last.raised
    /\ edits.r = "4"
    /\ cb_estribo = "3/8\""
    /\ LayerCount(rebar_rows[1], 1, 1) = 3
    /\ LayerDiamSum(rebar_rows[1], 1, 1) = 3 * 1910
    /\ LayerCount(rebar_rows[1], 1, 2) = 0
    /\ LayerBase(SectionScan(rebar_rows[1]), 1, 4000, 950) = 20630
    /\ LayerBase(SectionScan(rebar_rows[1]), 2, 4000, 950) = 9900
    /\ der.base_req_label = Fmt1Milli(20630)

\* layer l holds a bar: a row assigned to it has a quantity above 0
HasBars(rows, l) ==
    \E i \in Sections : \E k \in 1..Len(rows[i]) :
        LayerOf(rows[i][k]) = l /\ QtyOf(rows[i][k]) > 0

\* the rows with the quantity of every row of layer 1 set to the text q
SetQty1(rows, q) ==
    [i \in Sections |->
        [k \in 1..Len(rows[i]) |->
            IF LayerOf(rows[i][k]) = 1 THEN [rows[i][k] EXCEPT !.qty = q]
            ELSE rows[i][k]]]

\* C20: when h and r are numbers and no layer other than layer 1 holds a
\* bar, calc_effective_depth returns d = d1 = h - r - de - 0.5 db1, db1 the
\* representative diameter of layer 1, whatever the quantities of the rows
\* of layer 1 are; it is 44.415 for h = 50, r = 4, de = 0.95, db1 = 1.27.
C20_SingleLayerDepth ==
    (/\ IsFloatText(edits.h)
     /\ IsFloatText(edits.r)
     /\ \A l \in 2..4 : ~HasBars(rebar_rows, l)) =>
        \E eff \in {Eff}, h \in {FloatText[edits.h]},
           r \in {FloatText[edits.r]},
           de \in {DictGet(DIAM_CM, cb_estribo)} :
            /\ eff.ok
            /\ eff.d = eff.depths[1]
            /\ eff.d = h - r - de - eff.diams[1] \div 2
            /\ (h = 50000 /\ r = 4000 /\ de = 950 /\ eff.diams[1] = 1270)
                  => eff.d = 44415
            /\ \A q \in QtyChoices :
                  \E e2 \in {calc_effective_depth(edits, cb_estribo,
                                 cb_varilla, SetQty1(rebar_rows, q))} :
                      /\ e2.d = h - r - de - e2.diams[1] \div 2
                      /\ e2.diams[1] = eff.diams[1] => e2.d = eff.d

\* a quantity of a row of layer 1 has just changed from 2 to 3 while only
\* layer 1 holds bars, and d is still the 44.415 of the default window
C20_QuantityChanged ==
    /\ last.ev = "row_qty"
    /\ ~last.raised
    /\ last.rows0[1].qty = "2"
    /\ rebar_rows[last.sec][1].qty = "3"
    /\ LayerOf(rebar_rows[last.sec][1]) = 1
    /\ HasBars(rebar_rows, 1)
    /\ \A l \in 2..4 : ~HasBars(rebar_rows, l)
    /\ edits.h = "50"
    /\ edits.r = "4"
    /\ cb_estribo = "3/8\""
    /\ Eff.ok
    /\ Eff.diams[1] = 1270
    /\ Eff.d = 44415

\* C21: when h and r are numbers and exactly the layers 1 and 2 hold bars,
\* of total areas A1 and A2, calc_effective_depth returns
\* (d1 A1 + d2 A2) / (A1 + A2); the result lies between d2 and d1 and is the
\* arithmetic mean of d1 and d2 when A1 = A2.
C21_TwoLayerDepth ==
    (IsFloatText(edits.h) /\ IsFloatText(edits.r)
     /\ PopulatedLayers = {1, 2}) =>
        \E eff \in {Eff}, A \in {LayerTotals(rebar_rows)} :
            /\ eff.d = (eff.depths[1] * A[1] + eff.depths[2] * A[2])
                       \div (A[1] + A[2])
            /\ eff.depths[2] <= eff.d
            /\ eff.d <= eff.depths[1]
            /\ A[1] = A[2] => eff.d = (eff.depths[1] + eff.depths[2]) \div 2

\* every computation that reads the rows gives, with row k of section i, the
\* provided area, the layer counts and diameter sums, the base width, the
\* depth, the bars of the view and the outcome it gives without the row
QuantityZero(i, k) ==
    \E less \in {WithoutRow(rebar_rows, i, k)} :
        /\ _design_areas(rebar_rows) = _design_areas(less)
        /\ SectionScan(rebar_rows[i]) = SectionScan(less[i])
        /\ IsFloatText(edits.r) =>
              SectionBase(SectionScan(rebar_rows[i]), FloatText[edits.r],
                          DictGet(DIAM_CM, cb_estribo))
                = SectionBase(SectionScan(less[i]), FloatText[edits.r],
                              DictGet(DIAM_CM, cb_estribo))
        /\ calc_effective_depth(edits, cb_estribo, cb_varilla, rebar_rows)
             = calc_effective_depth(edits, cb_estribo, cb_varilla, less)
        /\ _collect_bars(rebar_rows, i - 1) = _collect_bars(less, i - 1)
        /\ _collect_order(rebar_rows, i - 1) = _collect_order(less, i - 1)
        /\ update_design_as(der, edits, cb_estribo, cb_varilla, rebar_rows,
                            mn_corr, mp_corr, np_moments)
             = update_design_as(der, edits, cb_estribo, cb_varilla, less,
                                mn_corr, mp_corr, np_moments)

\* C22: a row whose quantity text is empty or no integer counts as 0 bars in
\* the provided area, the effective depth, the base width and the section
\* view: each gives what it gives without the row, and no handler raises
\* that would not raise without it.
C22_EmptyQuantityIsZero ==
    \A i \in Sections : \A k \in 1..Len(rebar_rows[i]) :
        rebar_rows[i][k].qty \notin DOMAIN IntText => QuantityZero(i, k)

\* the quantity combo of a row with a catalog diameter has just been
\* emptied, and the handler returned
C22_QuantityEmptied ==
    /\ last.ev = "row_qty"
    /\ ~last.raised
    /\ \E k \in 1..Len(rebar_rows[last.sec]) :
           /\ rebar_rows[last.sec][k].qty = ""
           /\ last.rows0[k].qty # ""
           /\ rebar_rows[last.sec][k].dia \in DOMAIN BAR_DATA

\* the permutations of 1..n
Perms(n) == {p \in [1..n -> 1..n] : \A a \in 1..n : \E k \in 1..n : p[k] = a}

\* the row lists with the rows of section i in the order p
Permuted(rows, i, p) ==
    [rows EXCEPT ![i] = [k \in 1..Len(rows[i]) |-> rows[i][p[k]]]]

\* the row lists with the six sections in the reverse order
SectionsReversed(rows) == [i \in Sections |-> rows[7 - i]]

\* C23: when h and r are numbers, the effective depth, the provided area of
\* each section, and the required base width with the label showing it, are
\* the same for every order of the rows inside a section, and the effective
\* depth is the same when the sections are scanned in the reverse order.
C23_OrderIndependent ==
    (IsFloatText(edits.h) /\ IsFloatText(edits.r)) =>
        /\ calc_effective_depth(edits, cb_estribo, cb_varilla,
                                SectionsReversed(rebar_rows)).d = Eff.d
        /\ \A i \in Sections : \A p \in Perms(Len(rebar_rows[i])) :
            \E other \in {Permuted(rebar_rows, i, p)} :
                /\ calc_effective_depth(edits, cb_estribo, cb_varilla,
                                        other).d = Eff.d
                /\ _design_areas(other) = _design_areas(rebar_rows)
                /\ SectionScan(other[i]).total
                     = SectionScan(rebar_rows[i]).total
                /\ SectionBaseDbl(SectionScan(other[i]), FloatText[edits.r],
                                  cb_estribo)
                     = SectionBaseDbl(SectionScan(rebar_rows[i]),
                                      FloatText[edits.r], cb_estribo)
                /\ BaseWrites(der, edits, cb_estribo,
                              [j \in Sections |-> SectionScan(other[j])])
                        .base_req_label
                     = BaseWrites(der, edits, cb_estribo,
                                  [j \in Sections |->
                                      SectionScan(rebar_rows[j])])
                           .base_req_label

\* C29: when r is not a number, update_design_as on the current inputs
\* leaves the required-base label and the base message as they are, and
\* still shows for each control point the provided area of the current rows
\* with its status, and sets as_total to their sum.
C29_BaseLabelsKept ==
    ~IsFloatText(edits.r) =>
        \E U \in {Upd}, R \in {Req} :
            /\ ~U.raised
            /\ U.D.base_req_label = der.base_req_label
            /\ U.D.base_msg_label = der.base_msg_label
            /\ U.D.as_total = SumSeq(_design_areas(rebar_rows), 1)
            /\ \A i \in Sections :
                  U.D.des_shown[i]
                    = <<Fmt2Centi(ProvidedArea(rebar_rows[i], 1)),
                        IF DGe(DF(ProvidedArea(rebar_rows[i], 1), 2),
                               ReqOf(R, i))
                        THEN "OK" ELSE "NO OK">>

\* C24: a call draw_views(reset_orders=True) with b, h and r numbers leaves
\* neg_orders[i] = _collect_order(i) and pos_orders[i] = _collect_order(i + 3)
\* for i of 0..2 on the rows the design window holds at that time; a call
\* draw_views() leaves a stored neg_orders or pos_orders that is not empty as
\* it was.
C24_ResetOrders ==
    [][/\ (/\ last'.ev = "draw_views(reset_orders=True)"
           /\ IsFloatText(edits'.b)
           /\ IsFloatText(edits'.h)
           /\ IsFloatText(edits'.r)) =>
              /\ view'.neg_orders
                   = [i \in 1..3 |-> _collect_order(rebar_rows', i - 1)]
              /\ view'.pos_orders
                   = [i \in 1..3 |-> _collect_order(rebar_rows', i + 2)]
       /\ last'.ev = "draw_views()" =>
              /\ view.neg_orders # <<>> => view'.neg_orders = view.neg_orders
              /\ view.pos_orders # <<>> => view'.pos_orders = view.pos_orders
      ]_vars

\* the rows of M1- are no longer those the view was opened on, and a call
\* draw_views(reset_orders=True) has just given the view their order
C24_ResetAfterChange ==
    /\ view.open
    /\ last.ev = "draw_views(reset_orders=True)"
    /\ IsFloatText(edits.b)
    /\ rebar_rows[1] \notin LiveRows
    /\ view.neg_orders[1] = _collect_order(rebar_rows, 0)
    /\ view.neg_orders[1] # <<>>

\* the number of places of lst that hold x
Occurrences(lst, x) == Cardinality({k \in 1..Len(lst) : lst[k] = x})

\* same length and same multiset of keys
IsPermutation(s, t) ==
    /\ Len(s) = Len(t)
    /\ \A k \in 1..Len(s) : Occurrences(s, s[k]) = Occurrences(t, s[k])

\* lst without the element at the 0-based place k
Without(lst, k) ==
    [m \in 1..(Len(lst) - 1) |-> IF m <= k THEN lst[m] ELSE lst[m + 1]]

\* swap_bars or move_bar took the view from V to W: the list of the section
\* is a permutation of what it was, the lists of the other sections and of
\* the other sign are what they were
OnlyPermuted(V, W, sign, section) ==
    /\ IsPermutation(FilledOrders(W, Design, sign)[section + 1],
                     FilledOrders(V, Design, sign)[section + 1])
    /\ \A s \in 0..2 :
          s # section =>
              FilledOrders(W, Design, sign)[s + 1]
                = FilledOrders(V, Design, sign)[s + 1]
    /\ \A other \in {"pos", "neg"} \ {sign} :
          FilledOrders(W, Design, other) = FilledOrders(V, Design, other)

\* C25: with a sign, a section and bar indices that exist, swap_bars and
\* move_bar leave the order list of that section a permutation of what it
\* was and the lists of every other section and of the other sign as they
\* were, the list of a section being the one stored or, while none is
\* stored, the one _collect_order gives; move_bar puts the bar at the target
\* index clamped into [0, len - 1] and keeps the others in their order.
C25_OrdersPermuted ==
    view.open =>
      \A sign \in {"pos", "neg"}, section \in 0..2 :
        \E lst \in {FilledOrders(view, Design, sign)[section + 1]} :
          \A i \in 0..(Len(lst) - 1) :
            /\ \A j \in 0..(Len(lst) - 1) :
                  OnlyPermuted(view,
                               swap_bars(view, Design, sign, section, i, j),
                               sign, section)
            /\ \A new_idx \in {-1, 1, 5} :
                  \E W \in {move_bar(view, Design, sign, section, i, new_idx)},
                     at \in {IF new_idx < 0 THEN 0
                             ELSE IF new_idx > Len(lst) - 1 THEN Len(lst) - 1
                             ELSE new_idx} :
                    \E res \in {FilledOrders(W, Design, sign)[section + 1]} :
                      /\ OnlyPermuted(view, W, sign, section)
                      /\ res[at + 1] = lst[i + 1]
                      /\ Without(res, at) = Without(lst, i)

\* a move_bar has just taken a bar of a list of unlike bars to another place
C25_BarMoved ==
    /\ view.open
    /\ last.ev = "move_bar"
    /\ Len(view.neg_orders) = 3
    /\ Len(view.neg_orders[1]) = 3
    /\ view.neg_orders[1] # _collect_order(rebar_rows, 0)
    /\ IsPermutation(view.neg_orders[1], _collect_order(rebar_rows, 0))

\* C26: change_order, swap_bars and move_bar called with a sign that is
\* neither "pos" nor "neg", with a section outside 0..2 or, for swap_bars and
\* move_bar, with a bar index outside the list leave neg_orders and
\* pos_orders as they were; none of them raises (they return a view in each
\* of these cases).
C26_InvalidCallsIgnored ==
    view.open =>
      /\ \A sign \in ViewSigns, section \in ViewSections, o \in NewOrders :
            (sign \notin {"pos", "neg"} \/ section \notin 0..2) =>
                \A W \in {change_order(view, Design, sign, section, o)} :
                    /\ W.neg_orders = view.neg_orders
                    /\ W.pos_orders = view.pos_orders
      /\ \A sign \in ViewSigns, section \in ViewSections,
            i \in ViewIndices, j \in ViewIndices :
            (\/ sign \notin {"pos", "neg"}
             \/ section \notin 0..2
             \/ i \notin 0..(Len(FilledOrders(view, Design, sign)[section + 1]) - 1))
            =>
                \A W \in {swap_bars(view, Design, sign, section, i, j),
                          swap_bars(view, Design, sign, section, j, i),
                          move_bar(view, Design, sign, section, i, j)} :
                    /\ W.neg_orders = view.neg_orders
                    /\ W.pos_orders = view.pos_orders

\* the rows of seq that lie in layer l
RowsOfLayer(seq, l) == SelectSeq(seq, LAMBDA row : LayerOf(row) = l)

\* C27: while the stored orders are those generated from the design and b, h
\* and r are numbers, _plot_section draws in each layer of each section the
\* bars the design puts in that layer: the keys drawn in layer l are the
\* same multiset as the keys of the bars of the rows with layer l.
C27_LayersAsDesigned ==
    (/\ view.open
     /\ IsFloatText(edits.b) /\ IsFloatText(edits.h) /\ IsFloatText(edits.r)
     /\ view.neg_orders = CollectOrders(rebar_rows, 0)
     /\ view.pos_orders = CollectOrders(rebar_rows, 3)) =>
        \A idx \in 0..2, l \in 1..4 :
            /\ IsPermutation(
                   PlotByLayer(_collect_bars(rebar_rows, idx),
                               view.neg_orders[idx + 1], 1, 0)[l],
                   CollectOrder(RowsOfLayer(rebar_rows[idx + 1], l), 1))
            /\ IsPermutation(
                   PlotByLayer(_collect_bars(rebar_rows, idx + 3),
                               view.pos_orders[idx + 1], 1, 0)[l],
                   CollectOrder(RowsOfLayer(rebar_rows[idx + 4], l), 1))

\* C28: a release that ends a drag (a pick followed by motions) leaves
\* dragging False and selected_patch None, the selection on the picked bar (when
\* that bar is one of the order list of its section) at the place it now has
\* there, and every circle
\* at the place it is drawn at, none where the drag took it.
C28_DragCompleted ==
    [][(/\ view.open
        /\ view.dragging
        /\ last.ev \in {"_on_pick", "_on_motion"}
        /\ last'.ev = "_on_release") =>
           /\ ~view'.dragging
           /\ view'.selected_patch = <<>>
           /\ view'.selected # <<>>
           /\ view'.selected[1] = view.selected[1]
           /\ view'.selected[2] = view.selected[2]
           /\ \E lst \in {OrdersOf(view, view.selected[1])[view.selected[2] + 1]},
                 res \in {OrdersOf(view', view.selected[1])[view.selected[2] + 1]} :
                 view.selected[3] < Len(lst) =>
                     /\ view'.selected[3] < Len(res)
                     /\ res[view'.selected[3] + 1] = lst[view.selected[3] + 1]
                     /\ Without(res, view'.selected[3])
                          = Without(lst, view.selected[3])
           /\ view'.moved = {}
      ]_vars

====
